---- MODULE Spec2Model ----
(***************************************************************************)
(* A model of the dist-space collaborative editing server:                 *)
(*   - the OT transform function (server/src/transform.rs),                *)
(*   - Document::apply_op (common/src/document.rs),                        *)
(*   - the operation log (common/src/types.rs),                            *)
(*   - the apply pipeline ServerState::send_applied_op                     *)
(*     (server/src/state.rs) run concurrently by the reader threads,       *)
(*   - the listener and the heartbeat monitor (server/src/main.rs), the    *)
(*     client registry (state.rs, client_entry.rs), broadcast              *)
(*     (broadcaster.rs) and the reader and writer threads (reader.rs,      *)
(*     writer.rs) around the bounded outbound queues.                      *)
(*                                                                         *)
(* Text is a sequence of one-character strings (one index per character),  *)
(* client ids are byte strings (sequences of byte values) so that Rust's   *)
(* lexicographic String comparison can be computed.                        *)
(*                                                                         *)
(* Fourteen specifications:                                                *)
(*   SpecTransform  draws a document and two concurrent operations and     *)
(*                  runs the two application orders of the TP1 diamond;    *)
(*   Spec           runs the apply pipeline on concurrent reader threads;  *)
(*   SpecServer     two connections from accept to broadcast: listener,    *)
(*                  readers running the pipeline, broadcast, writers;      *)
(*   SpecTransport  three connections, operations reduced to Noops:        *)
(*                  broadcast, full and closed queues, eviction;           *)
(*   SpecLiveness   the clock, the heartbeat monitor and Pongs;            *)
(*   SpecAdmission  one connection more than MAX_CLIENTS: the limit;       *)
(*   SpecLocks      the mutex acquisitions of readers, listener and        *)
(*                  heartbeat thread, one step per lock or unlock;         *)
(*   SpecFifo       two clients sending numbered operations over their     *)
(*                  sockets, readers, broadcast and writers;               *)
(*   SpecFraming    a client sending well-formed, empty, oversized and     *)
(*                  malformed frames, and closing the connection;          *)
(*   SpecNoop       SpecServer's threads with operations that are, or are  *)
(*                  rebased to, a Noop;                                    *)
(*   SpecRebase     the pipeline with operations valid where authored;     *)
(*   SpecWidth      one call of transform in the index arithmetic of the   *)
(*                  code (u32 and usize), in a debug and a release build;  *)
(*   SpecEviction   SpecFifo's threads with the end of the writer thread,  *)
(*                  the server's threads scheduled fairly;                 *)
(*   SpecFanout     four registered connections, two of them applying      *)
(*                  and broadcasting, two only receiving.                  *)
(***************************************************************************)
EXTENDS Integers, Sequences, FiniteSets, TLC

VARIABLES
    conv,        \* the TP1 diamond under SpecTransform, the call of transform
                 \* under SpecWidth
    doc,         \* ServerState.document: [content, version]
    doc_lock,    \* holder of the document mutex, or NoThread
    op_log,      \* OperationLog.logs: sequence of Operation records
    pc,          \* per reader thread: position in the reader loop / send_applied_op / broadcast
    loc,         \* per reader thread: locals of the running invocation
    applied,     \* history: the operation kind applied at each version, in order
    succeeded,   \* history: number of invocations that returned Ok
    any_failed,  \* history: some invocation has returned Err
    last_err,    \* history: the ErrorKind of the latest Err returned, or "none"
    clients,     \* ServerState.clients: the registry, a Vec of client ids
    queues,      \* per connection: the frames in its bounded outbound channel
    writer,      \* per connection: its writer thread ("none", "running", "exited")
    last_activity_ms, \* per connection: ClientEntry.last_activity_ms
    now_ms,      \* the system clock, milliseconds
    listener,    \* the listener thread: position in the accept loop
    hb,          \* the heartbeat thread: position, wake-up time, ping_sequence
    stats,       \* history: what has happened to each connection
    locks,       \* holder of the OpLog mutex and of the registry mutex, or NoThread
    net          \* the sockets: per connection the frames the client has sent and
                 \* the reader has not read, and as history the frames written
                 \* to the socket and the operations handed to the pipeline

transport_vars ==
    <<clients, queues, writer, last_activity_ms, now_ms, listener, hb, stats>>

vars == <<conv, doc, doc_lock, op_log, pc, loc, applied, succeeded, any_failed, last_err,
          clients, queues, writer, last_activity_ms, now_ms, listener, hb, stats,
          locks, net>>

pipeline_vars == <<doc, doc_lock, op_log, pc, loc, applied, succeeded, any_failed, last_err>>

-----------------------------------------------------------------------------
(* Bounds *)

\* longest initial document drawn under SpecTransform
MaxDocLen == 3

\* longest inserted / replacement text drawn under SpecTransform
MaxTextLen == 2

\* largest index a client puts in an operation under Spec
MaxIndex == 1

\* Spec stops accepting operations once document.version reaches MaxVersion
MaxVersion == 2

-----------------------------------------------------------------------------
(* Operation kinds: common/src/types.rs *)

InsertOp(index, text, client_id, client_version) ==
    [kind |-> "Insert", index |-> index, text |-> text,
     client_id |-> client_id, client_version |-> client_version]

DeleteOp(start, end, client_id, client_version) ==
    [kind |-> "Delete", start |-> start, end |-> end,
     client_id |-> client_id, client_version |-> client_version]

ReplaceOp(start, end, text, client_id, client_version) ==
    [kind |-> "Replace", start |-> start, end |-> end, text |-> text,
     client_id |-> client_id, client_version |-> client_version]

NoopOp(client_id, client_version) ==
    [kind |-> "Noop", client_id |-> client_id, client_version |-> client_version]

\* Rust's `<` on String: lexicographic comparison of the bytes.
RECURSIVE LexLess(_, _)
LexLess(s, t) ==
    IF t = <<>> THEN FALSE
    ELSE IF s = <<>> THEN TRUE
    ELSE IF Head(s) < Head(t) THEN TRUE
    ELSE IF Head(s) > Head(t) THEN FALSE
    ELSE LexLess(Tail(s), Tail(t))

-----------------------------------------------------------------------------
(* Transform: server/src/transform.rs *)

map_index_after_deletion(i, del_start, del_end) ==
    IF i <= del_start THEN i
    ELSE IF i >= del_end THEN i - (del_end - del_start)
    ELSE del_start

map_index_after_insertion(i, ins_pos, ins_len) ==
    IF i < ins_pos THEN i ELSE i + ins_len

\* mutant of transform_insert_insert: the client_id tie-break is left out
transform_insert_insert_no_tie_break(op, prev) ==
    IF prev.index < op.index
    THEN [op EXCEPT !.index = op.index + Len(prev.text)]
    ELSE op

\* Insert vs Insert (transform.rs 24-32)
transform_insert_insert(op, prev) ==
    IF prev.index < op.index
       \/ (prev.index = op.index /\ LexLess(prev.client_id, op.client_id))
    THEN [op EXCEPT !.index = op.index + Len(prev.text)]
    ELSE op

\* Insert vs Delete (transform.rs 34-42)
transform_insert_delete(op, prev) ==
    [op EXCEPT !.index = map_index_after_deletion(op.index, prev.start, prev.end)]

\* Insert vs Replace (transform.rs 44-57)
transform_insert_replace(op, prev) ==
    LET after_del == map_index_after_deletion(op.index, prev.start, prev.end)
    IN  [op EXCEPT !.index =
            map_index_after_insertion(after_del, prev.start, Len(prev.text))]

\* The endpoint shift shared by Delete vs Insert (63-75), the insert half of
\* Delete vs Replace (131-140) and Replace vs Insert (149-158).
shift_range_after_insert(op, ins_index, ins_len) ==
    IF ins_index <= op.start
    THEN [op EXCEPT !.start = op.start + ins_len, !.end = op.end + ins_len]
    ELSE IF ins_index < op.end
    THEN [op EXCEPT !.end = op.end + ins_len]
    ELSE op

\* Delete vs Insert (transform.rs 63-75)
transform_delete_insert(op, prev) ==
    shift_range_after_insert(op, prev.index, Len(prev.text))

\* mutant of transform_delete_delete: the range is moved by its start and keeps
\* its width, as if the previous delete could not overlap it
transform_delete_delete_keep_width(op, prev) ==
    LET new_start == map_index_after_deletion(op.start, prev.start, prev.end)
        new_end   == new_start + (op.end - op.start)
    IN  IF new_start = new_end
        THEN NoopOp(op.client_id, op.client_version)
        ELSE [op EXCEPT !.start = new_start, !.end = new_end]

\* mutant of transform_delete_delete: the collapse check is left out, a
\* collapsed range is returned as a zero-width Delete
transform_delete_delete_no_collapse(op, prev) ==
    [op EXCEPT !.start = map_index_after_deletion(op.start, prev.start, prev.end),
               !.end   = map_index_after_deletion(op.end, prev.start, prev.end)]

\* Delete vs Delete (transform.rs 77-101)
transform_delete_delete(op, prev) ==
    LET new_start == map_index_after_deletion(op.start, prev.start, prev.end)
        new_end   == map_index_after_deletion(op.end, prev.start, prev.end)
    IN  IF new_start = new_end
        THEN NoopOp(op.client_id, op.client_version)
        ELSE [op EXCEPT !.start = new_start, !.end = new_end]

\* Delete vs Replace (transform.rs 103-143)
transform_delete_replace(op, prev) ==
    LET start_after_del == map_index_after_deletion(op.start, prev.start, prev.end)
        end_after_del   == map_index_after_deletion(op.end, prev.start, prev.end)
        temp_op == [op EXCEPT !.start = start_after_del, !.end = end_after_del]
    IN  IF start_after_del = end_after_del
        THEN NoopOp(op.client_id, op.client_version)
        ELSE shift_range_after_insert(temp_op, prev.start, Len(prev.text))

\* Replace vs Insert (transform.rs 149-158)
transform_replace_insert(op, prev) ==
    shift_range_after_insert(op, prev.index, Len(prev.text))

\* mutant of transform_replace_delete: a collapsed range gives a Noop, as it
\* does for a Delete, and the replacement text is dropped
transform_replace_delete_noop(op, prev) ==
    LET new_start == map_index_after_deletion(op.start, prev.start, prev.end)
        new_end   == map_index_after_deletion(op.end, prev.start, prev.end)
    IN  IF new_start = new_end
        THEN NoopOp(op.client_id, op.client_version)
        ELSE [op EXCEPT !.start = new_start, !.end = new_end]

\* Replace vs Delete (transform.rs 160-187)
transform_replace_delete(op, prev) ==
    LET new_start == map_index_after_deletion(op.start, prev.start, prev.end)
        new_end   == map_index_after_deletion(op.end, prev.start, prev.end)
    IN  IF new_start = new_end
        THEN InsertOp(new_start, op.text, op.client_id, op.client_version)
        ELSE [op EXCEPT !.start = new_start, !.end = new_end]

\* Replace vs Replace (transform.rs 189-225)
transform_replace_replace(op, prev) ==
    LET start_after_del == map_index_after_deletion(op.start, prev.start, prev.end)
        end_after_del   == map_index_after_deletion(op.end, prev.start, prev.end)
        start_final == map_index_after_insertion(start_after_del, prev.start, Len(prev.text))
        end_final   == map_index_after_insertion(end_after_del, prev.start, Len(prev.text))
    IN  IF start_final = end_final
        THEN InsertOp(start_final, op.text, op.client_id, op.client_version)
        ELSE [op EXCEPT !.start = start_final, !.end = end_final]

\* mutant of transform: a Noop on the right is treated as an insert of nothing
\* at index 0 whose author wins ties, and a Noop on the left takes the
\* identity of the operation it is transformed past
transform_noop_not_identity(op_in, op_prev) ==
    LET prev == IF op_prev.kind = "Noop"
                THEN InsertOp(0, <<"X">>, <<>>, op_prev.client_version)
                ELSE op_prev
    IN  CASE op_in.kind = "Noop" ->
                NoopOp(op_prev.client_id, op_prev.client_version)
          [] op_in.kind = "Insert" ->
                (CASE prev.kind = "Insert"  -> transform_insert_insert(op_in, prev)
                   [] prev.kind = "Delete"  -> transform_insert_delete(op_in, prev)
                   [] prev.kind = "Replace" -> transform_insert_replace(op_in, prev))
          [] op_in.kind = "Delete" ->
                (CASE prev.kind = "Insert"  -> transform_delete_insert(op_in, prev)
                   [] prev.kind = "Delete"  -> transform_delete_delete(op_in, prev)
                   [] prev.kind = "Replace" -> transform_delete_replace(op_in, prev))
          [] op_in.kind = "Replace" ->
                (CASE prev.kind = "Insert"  -> transform_replace_insert(op_in, prev)
                   [] prev.kind = "Delete"  -> transform_replace_delete(op_in, prev)
                   [] prev.kind = "Replace" -> transform_replace_replace(op_in, prev))

\* transform.rs 17-228: the 4x4 dispatch
transform(op_in, op_prev) ==
    CASE op_in.kind = "Noop" -> op_in
      [] op_in.kind = "Insert" ->
            (CASE op_prev.kind = "Noop"    -> op_in
               [] op_prev.kind = "Insert"  -> transform_insert_insert(op_in, op_prev)
               [] op_prev.kind = "Delete"  -> transform_insert_delete(op_in, op_prev)
               [] op_prev.kind = "Replace" -> transform_insert_replace(op_in, op_prev))
      [] op_in.kind = "Delete" ->
            (CASE op_prev.kind = "Noop"    -> op_in
               [] op_prev.kind = "Insert"  -> transform_delete_insert(op_in, op_prev)
               [] op_prev.kind = "Delete"  -> transform_delete_delete(op_in, op_prev)
               [] op_prev.kind = "Replace" -> transform_delete_replace(op_in, op_prev))
      [] op_in.kind = "Replace" ->
            (CASE op_prev.kind = "Noop"    -> op_in
               [] op_prev.kind = "Insert"  -> transform_replace_insert(op_in, op_prev)
               [] op_prev.kind = "Delete"  -> transform_replace_delete(op_in, op_prev)
               [] op_prev.kind = "Replace" -> transform_replace_replace(op_in, op_prev))

-----------------------------------------------------------------------------
(* Document: common/src/document.rs *)

\* String::replace_range(start..end, text) on a one-byte-per-character string
replace_range(content, start, end, text) ==
    SubSeq(content, 1, start) \o text \o SubSeq(content, end + 1, Len(content))

\* mutant of apply_op: the bounds checks are left out
apply_op_unchecked(d, op) ==
    LET Ok(content) == [ok |-> TRUE,
                        doc |-> [content |-> content, version |-> d.version + 1]]
    IN  CASE op.kind = "Insert" ->
                Ok(replace_range(d.content, op.index, op.index, op.text))
          [] op.kind = "Delete" ->
                Ok(replace_range(d.content, op.start, op.end, <<>>))
          [] op.kind = "Replace" ->
                Ok(replace_range(d.content, op.start, op.end, op.text))
          [] op.kind = "Noop" -> Ok(d.content)

\* mutant of apply_op: a Noop is dropped, the version stays as it is
apply_op_noop_keeps_version(d, op) ==
    LET len == Len(d.content)
        Err == [ok |-> FALSE, doc |-> d]
        Ok(content) == [ok |-> TRUE,
                        doc |-> [content |-> content, version |-> d.version + 1]]
    IN  CASE op.kind = "Insert" ->
                IF op.index > len THEN Err
                ELSE Ok(replace_range(d.content, op.index, op.index, op.text))
          [] op.kind = "Delete" ->
                IF op.end > len \/ op.start > op.end THEN Err
                ELSE Ok(replace_range(d.content, op.start, op.end, <<>>))
          [] op.kind = "Replace" ->
                IF op.end > len \/ op.start > op.end THEN Err
                ELSE Ok(replace_range(d.content, op.start, op.end, op.text))
          [] op.kind = "Noop" -> [ok |-> TRUE, doc |-> d]

\* Document::apply_op: Ok leaves the edited content and version + 1,
\* Err leaves the document as it was.
apply_op(d, op) ==
    LET len == Len(d.content)
        Err == [ok |-> FALSE, doc |-> d]
        Ok(content) == [ok |-> TRUE,
                        doc |-> [content |-> content, version |-> d.version + 1]]
    IN  CASE op.kind = "Insert" ->
                IF op.index > len THEN Err
                ELSE Ok(replace_range(d.content, op.index, op.index, op.text))
          [] op.kind = "Delete" ->
                IF op.end > len \/ op.start > op.end THEN Err
                ELSE Ok(replace_range(d.content, op.start, op.end, <<>>))
          [] op.kind = "Replace" ->
                IF op.end > len \/ op.start > op.end THEN Err
                ELSE Ok(replace_range(d.content, op.start, op.end, op.text))
          [] op.kind = "Noop" -> Ok(d.content)

-----------------------------------------------------------------------------
(* SpecTransform: the TP1 diamond of server/src/transform.rs test_convergence *)

\* bytes of the client ids "AB" and "B": "AB" < "B" in Rust's String order
IdLow  == <<65, 66>>
IdHigh == <<66>>

\* the two concurrent authors: client id and the version they authored against
Identities == {[client_id |-> IdLow, client_version |-> 0],
               [client_id |-> IdHigh, client_version |-> 1]}

DocPool == <<"a", "b", "c", "d", "e", "f", "g", "h">>

\* every text of at most MaxTextLen characters
Texts == UNION {[1..n -> {"X", "Y"}] : n \in 0..MaxTextLen}

\* the operations of one author that are valid at document d
\* (index <= len, start <= end <= len)
ValidOps(d, id) ==
    LET len == Len(d.content) IN
         {InsertOp(i, t, id.client_id, id.client_version) :
              i \in 0..len, t \in Texts}
    \cup {DeleteOp(r[1], r[2], id.client_id, id.client_version) :
              r \in {x \in (0..len) \X (0..len) : x[1] <= x[2]}}
    \cup {ReplaceOp(r[1], r[2], t, id.client_id, id.client_version) :
              r \in {x \in (0..len) \X (0..len) : x[1] <= x[2]}, t \in Texts}
    \cup {NoopOp(id.client_id, id.client_version)}

\* spec.md section 8, scenario 3 (Replace collapse)
ScenarioDoc == [content |-> DocPool, version |-> 0]
ScenarioA == ReplaceOp(2, 6, <<"Z", "Z">>, IdLow, 1)
ScenarioB == DeleteOp(1, 7, IdHigh, 1)

\* a document ("", "a", "ab", ... up to MaxDocLen characters) and two
\* operations of different authors, both valid at it
ConvInputs ==
    {x \in UNION {{d} \X ValidOps(d, ia) \X ValidOps(d, ib) :
                     d \in {[content |-> SubSeq(DocPool, 1, n), version |-> 0] :
                                n \in 0..MaxDocLen},
                     ia \in Identities, ib \in Identities} :
         x[2].client_id # x[3].client_id}
    \cup {<<ScenarioDoc, ScenarioA, ScenarioB>>}

NoOp == [kind |-> "None"]

\* conv while the apply pipeline runs (Spec): unused
ConvOff == [stage |-> "off"]

\* test_convergence: apply first, then the other operation transformed past it
apply_then(d, first, second_transformed) ==
    LET r1 == apply_op(d, first) IN
    IF ~r1.ok THEN [ok |-> FALSE, content |-> r1.doc.content]
    ELSE LET r2 == apply_op(r1.doc, second_transformed)
         IN  [ok |-> r2.ok, content |-> r2.doc.content]

\* transformed_b = transform(op_b, op_a); transformed_a = transform(op_a, op_b)
TransformBoth ==
    /\ conv.stage = "start"
    /\ conv' = [conv EXCEPT !.stage = "transformed",
                            !.b_after_a = transform(conv.b, conv.a),
                            !.a_after_b = transform(conv.a, conv.b)]
    /\ UNCHANGED <<locks, net, transport_vars, pipeline_vars>>

\* path 1: a then transformed b; path 2: b then transformed a
ApplyPaths ==
    /\ conv.stage = "transformed"
    /\ conv' = [conv EXCEPT !.stage = "applied",
                            !.path1 = apply_then(conv.D, conv.a, conv.b_after_a),
                            !.path2 = apply_then(conv.D, conv.b, conv.a_after_b)]
    /\ UNCHANGED <<locks, net, transport_vars, pipeline_vars>>

\* no thread: the holder of an unlocked mutex
NoThread == "none"

\* the OpLog mutex and the registry mutex, both unlocked
LocksFree == [op_log |-> NoThread, registry |-> NoThread]

\* the sockets where the bytes on them are not followed: of no connection
NetOff == [inbound |-> <<>>, sent |-> <<>>, handed |-> <<>>, outbound |-> <<>>]

\* the transport while only transform or only the apply pipeline runs: unused
TransportOff ==
    /\ clients = <<>>
    /\ queues = <<>>
    /\ writer = <<>>
    /\ last_activity_ms = <<>>
    /\ now_ms = 0
    /\ listener = "off"
    /\ hb = "off"
    /\ stats = <<>>
    /\ locks = LocksFree
    /\ net = NetOff

PipelineOff ==
    /\ TransportOff
    /\ doc = [content |-> <<>>, version |-> 0]
    /\ doc_lock = "none"
    /\ op_log = <<>>
    /\ pc = <<>>
    /\ loc = <<>>
    /\ applied = <<>>
    /\ succeeded = 0
    /\ any_failed = FALSE
    /\ last_err = "none"

InitTransform ==
    /\ conv \in {[stage |-> "start", D |-> x[1], a |-> x[2], b |-> x[3],
                  b_after_a |-> NoOp, a_after_b |-> NoOp,
                  path1 |-> [ok |-> FALSE, content |-> <<>>],
                  path2 |-> [ok |-> FALSE, content |-> <<>>]] : x \in ConvInputs}
    /\ PipelineOff

NextTransform == TransformBoth \/ ApplyPaths

SpecTransform == InitTransform /\ [][NextTransform]_vars

-----------------------------------------------------------------------------
(* Operation log: common/src/types.rs, server/src/state.rs *)

\* OperationLog::append_log_arc (types.rs 121-128): logs.push_back(op)
append_log_arc(logs, op) == Append(logs, op)

\* OperationLog::get_ops_in_range(lo, hi), called at state.rs 233-236; its body
\* is not among the sources. After spec.md 4.3: the entries whose
\* server_version lies in [lo, hi), in ascending server_version order.
RECURSIVE get_ops_in_range(_, _, _)
get_ops_in_range(logs, lo, hi) ==
    IF lo >= hi THEN <<>>
    ELSE SelectSeq(logs, LAMBDA e : e.server_version = lo)
            \o get_ops_in_range(logs, lo + 1, hi)

\* state.rs 239-241: for past_op in past_ops { op_kind = transform(op_kind, past_op.kind) }
RECURSIVE rebase(_, _)
rebase(op_kind, past_ops) ==
    IF past_ops = <<>> THEN op_kind
    ELSE rebase(transform(op_kind, Head(past_ops).kind), Tail(past_ops))

-----------------------------------------------------------------------------
(* Apply pipeline: ServerState::send_applied_op, server/src/state.rs 189-275, *)
(* called by each connection's reader thread                                  *)

Readers == {"r1", "r2"}

\* the client id string each connection's client puts in its operations
ReaderClientId(t) == IF t = "r1" THEN IdLow ELSE IdHigh

\* the text each connection's client inserts
ReaderText(t) == IF t = "r1" THEN <<"X">> ELSE <<"Y">>

\* a client_id string that Uuid::parse_str rejects
BadUuid == <<63>>

\* mutant of parse_str_ok: the client_id is not parsed, any string passes
parse_str_unchecked(s) == TRUE

\* Uuid::parse_str (state.rs 202): succeeds on the clients' uuid strings
parse_str_ok(s) == s \in {ReaderClientId(t) : t \in Readers}

\* the operation kinds a client may send: any indices up to MaxIndex, valid for
\* the document or not (validation happens at apply time)
ClientKinds(t, cv) ==
         {InsertOp(i, ReaderText(t), ReaderClientId(t), cv) : i \in 0..MaxIndex}
    \cup {DeleteOp(s, e, ReaderClientId(t), cv) : s \in 0..MaxIndex, e \in 0..MaxIndex}
    \cup {ReplaceOp(s, e, ReaderText(t), ReaderClientId(t), cv) :
              s \in 0..MaxIndex, e \in 0..MaxIndex}
    \cup {NoopOp(ReaderClientId(t), cv)}

\* OperationProto: doc_id, client_id, kind (None when the oneof is unset),
\* client_version
Proto(doc_id, client_id, kind, cv) ==
    [doc_id |-> doc_id, client_id |-> client_id, kind |-> kind, client_version |-> cv]

\* the well-formed operations connection t may receive
GoodProtos(t) ==
    UNION {{Proto("doc", ReaderClientId(t), k, cv) : k \in ClientKinds(t, cv)} :
              cv \in 0..MaxVersion}

\* one operation for each structural defect: empty doc_id, unparseable
\* client_id, missing kind
BadProtos(t) ==
    {Proto("", ReaderClientId(t), NoopOp(ReaderClientId(t), 0), 0),
     Proto("doc", BadUuid, NoopOp(BadUuid, 0), 0),
     Proto("doc", ReaderClientId(t), NoOp, 0)}

\* state.rs 195-209: doc_id non-empty, client_id parses, convert_operation is Some
structurally_valid(proto) ==
    /\ proto.doc_id # ""
    /\ parse_str_ok(proto.client_id)
    /\ proto.kind # NoOp

LocIdle == [op_kind |-> NoOp]

\* state.rs 195-209: a structural defect returns Err(InvalidData) before the
\* document is locked
RejectStructural(t, proto) ==
    /\ pc[t] = "idle"
    /\ ~structurally_valid(proto)
    /\ any_failed' = TRUE
    /\ last_err' = "InvalidData"
    /\ UNCHANGED <<locks, net, transport_vars, conv, doc, doc_lock, op_log, pc, loc, applied, succeeded>>

\* state.rs 213-229: lock the document; client_version > doc.version returns
\* Err(InvalidData) and drops the guard
RejectFuture(t, proto) ==
    /\ pc[t] = "idle"
    /\ structurally_valid(proto)
    /\ doc_lock = NoThread
    /\ proto.client_version > doc.version
    /\ any_failed' = TRUE
    /\ last_err' = "InvalidData"
    /\ UNCHANGED <<locks, net, transport_vars, conv, doc, doc_lock, op_log, pc, loc, applied, succeeded>>

\* state.rs 193-231: validate, lock the document, pass the version check;
\* the document takes operations while its version is below cap
LockDocumentBelow(t, proto, cap) ==
    /\ pc[t] = "idle"
    /\ structurally_valid(proto)
    /\ doc_lock = NoThread
    /\ doc.version < cap
    /\ proto.client_version <= doc.version
    /\ doc_lock' = t
    /\ loc' = [loc EXCEPT ![t] =
                  [op_kind |-> proto.kind,
                   doc_id |-> proto.doc_id,
                   client_id |-> proto.client_id,
                   client_version |-> proto.client_version,
                   past_ops |-> <<>>]]
    /\ pc' = [pc EXCEPT ![t] =
                  IF proto.client_version < doc.version THEN "rebase" ELSE "apply"]
    /\ UNCHANGED <<locks, net, transport_vars, conv, doc, op_log, applied, succeeded, any_failed, last_err>>

LockDocument(t, proto) == LockDocumentBelow(t, proto, MaxVersion)

\* state.rs 231-242: fetch [client_version, doc.version) from the log and fold
\* transform over it, holding the document lock
Rebase(t) ==
    /\ pc[t] = "rebase"
    /\ LET past_ops == get_ops_in_range(op_log, loc[t].client_version, doc.version)
       IN  loc' = [loc EXCEPT ![t].past_ops = past_ops,
                              ![t].op_kind = rebase(loc[t].op_kind, past_ops)]
    /\ pc' = [pc EXCEPT ![t] = "apply"]
    /\ UNCHANGED <<locks, net, transport_vars, conv, doc, doc_lock, op_log, applied,
                   succeeded, any_failed, last_err>>

\* state.rs 244-249, apply succeeds: the content and version are copied out
\* and the guard is dropped at the end of the block
ApplyOk(t) ==
    /\ pc[t] = "apply"
    /\ apply_op(doc, loc[t].op_kind).ok
    /\ doc' = apply_op(doc, loc[t].op_kind).doc
    /\ doc_lock' = NoThread
    /\ loc' = [loc EXCEPT ![t] =
                  [op_kind |-> loc[t].op_kind,
                   doc_id |-> loc[t].doc_id,
                   client_id |-> loc[t].client_id,
                   client_version |-> loc[t].client_version,
                   updated_content |-> doc'.content,
                   new_version |-> doc'.version]]
    /\ applied' = Append(applied, loc[t].op_kind)
    /\ pc' = [pc EXCEPT ![t] = "append"]
    /\ UNCHANGED <<locks, net, transport_vars, conv, op_log, succeeded, any_failed, last_err>>

\* state.rs 245-246, apply fails: Err is returned, the guard is dropped
ApplyErr(t) ==
    /\ pc[t] = "apply"
    /\ ~apply_op(doc, loc[t].op_kind).ok
    /\ doc_lock' = NoThread
    /\ loc' = [loc EXCEPT ![t] = LocIdle]
    /\ pc' = [pc EXCEPT ![t] = "idle"]
    /\ any_failed' = TRUE
    /\ last_err' = "Other"
    /\ UNCHANGED <<locks, net, transport_vars, conv, doc, op_log, applied, succeeded>>

\* mutant of final_op: the entry is stamped with the version after the apply
final_op_new_version(l) ==
    [kind |-> l.op_kind,
     client_id |-> l.client_id,
     client_version |-> l.client_version,
     server_version |-> l.new_version]

\* state.rs 251-261: the logged Operation, server_version = new_version - 1
final_op(l) ==
    [kind |-> l.op_kind,
     client_id |-> l.client_id,
     client_version |-> l.client_version,
     server_version |-> l.new_version - 1]

\* state.rs 251-274: append the entry stamped new_version - 1 and return
\* Ok(the snapshot frame of updated_content and new_version)
AppendLog(t) ==
    /\ pc[t] = "append"
    /\ op_log' = append_log_arc(op_log, final_op(loc[t]))
    /\ succeeded' = succeeded + 1
    /\ loc' = [loc EXCEPT ![t] = LocIdle]
    /\ pc' = [pc EXCEPT ![t] = "idle"]
    /\ UNCHANGED <<locks, net, transport_vars, conv, doc, doc_lock, applied, any_failed, last_err>>

\* ServerState::new (state.rs 46-57): empty document at version 0, empty log
Init ==
    /\ conv = ConvOff
    /\ doc = [content |-> <<>>, version |-> 0]
    /\ doc_lock = NoThread
    /\ op_log = <<>>
    /\ pc = [t \in Readers |-> "idle"]
    /\ loc = [t \in Readers |-> LocIdle]
    /\ applied = <<>>
    /\ succeeded = 0
    /\ any_failed = FALSE
    /\ last_err = "none"
    /\ TransportOff

Next ==
    \E t \in Readers :
        \/ \E proto \in BadProtos(t) : RejectStructural(t, proto)
        \/ \E proto \in GoodProtos(t) : RejectFuture(t, proto)
        \/ \E proto \in GoodProtos(t) : LockDocument(t, proto)
        \/ Rebase(t)
        \/ ApplyOk(t)
        \/ ApplyErr(t)
        \/ AppendLog(t)

Spec == Init /\ [][Next]_vars

-----------------------------------------------------------------------------
(* Transport: the listener (server/src/main.rs), the reader loop            *)
(* (reader.rs), the writer (writer.rs), broadcast (broadcaster.rs), the     *)
(* registry operations of state.rs and ClientEntry (client_entry.rs).       *)
(* A connection is named by its server-minted client_id.                    *)

\* state.rs 26 sets MAX_CLIENTS = 100; the model runs with a registry limit
\* of this many entries
MAX_CLIENTS == 3

\* main.rs 63 creates each outbound channel with bounded(32); the model runs
\* with channels of this many frames
QueueCapacity == 2

\* state.rs 30
CLIENT_TIMEOUT_MS == 30000

\* state.rs 34
HEARTBEAT_INTERVAL_MS == 10000

\* the clock advances in steps of half the client timeout, at most MaxTicks times
MaxTicks == 3

\* the client ids the listener mints (Uuid::new_v4, main.rs 60), in order
ConnOrder == <<"r1", "r2", "r3", "r4", "r5">>

\* the connections of SpecTransport
Connections == {"r1", "r2", "r3"}

\* the connections of SpecAdmission: one more than the registry admits
AdmissionConnections == {ConnOrder[i] : i \in 1..(MAX_CLIENTS + 1)}

NoConn == "none"

\* SyncDocumentProto wrapped in ServerMessage::SyncDocument and a Frame
\* (main.rs 82-95, state.rs 267-274)
SnapshotFrame(content, version) ==
    [type |-> "SyncDocument", content |-> content, version |-> version]

\* ServerMessage::Ping(sequence) in a Frame (state.rs 156-157)
PingFrame(sequence) == [type |-> "Ping", sequence |-> sequence]

\* mutant of try_send: a full queue drops the frame and reports success
try_send_drop_frame(queue, receiver_alive, frame) ==
    IF ~receiver_alive THEN [result |-> "Disconnected", queue |-> queue]
    ELSE IF Len(queue) >= QueueCapacity THEN [result |-> "Ok", queue |-> queue]
    ELSE [result |-> "Ok", queue |-> Append(queue, frame)]

\* mutant of try_send: the frame is put at the front of the channel
try_send_at_front(queue, receiver_alive, frame) ==
    IF ~receiver_alive THEN [result |-> "Disconnected", queue |-> queue]
    ELSE IF Len(queue) >= QueueCapacity THEN [result |-> "Full", queue |-> queue]
    ELSE [result |-> "Ok", queue |-> <<frame>> \o queue]

\* Sender::try_send on a bounded channel (broadcaster.rs 31-43, state.rs 161):
\* Disconnected when the receiver is gone, Full at capacity, else enqueued
try_send(queue, receiver_alive, frame) ==
    IF ~receiver_alive THEN [result |-> "Disconnected", queue |-> queue]
    ELSE IF Len(queue) >= QueueCapacity THEN [result |-> "Full", queue |-> queue]
    ELSE [result |-> "Ok", queue |-> Append(queue, frame)]

\* mutant of connection_limit_reached: the limit itself is still admitted
connection_limit_above(count) == count > MAX_CLIENTS

\* main.rs 50 and state.rs 75: clients.len() >= MAX_CLIENTS
connection_limit_reached(count) == count >= MAX_CLIENTS

\* ClientEntry::ms_since_last_activity (client_entry.rs 41-49): saturating_sub
ms_since_last_activity(last, now) == IF now >= last THEN now - last ELSE 0

\* mutant of is_timed_out: an age equal to the timeout counts as timed out
is_timed_out_at_limit(last, now, timeout_ms) ==
    ms_since_last_activity(last, now) >= timeout_ms

\* ClientEntry::is_timed_out (client_entry.rs 51-54)
is_timed_out(last, now, timeout_ms) == ms_since_last_activity(last, now) > timeout_ms

\* mutant of retain_not_failed: the registry is cut at the first failed client
retain_cut_at_failed(registry, failed_clients) ==
    LET at == {i \in 1..Len(registry) : registry[i] \in failed_clients}
    IN  IF at = {} THEN registry
        ELSE SubSeq(registry, 1, (CHOOSE i \in at : \A k \in at : i <= k) - 1)

\* Vec::retain of broadcast (broadcaster.rs 47-58): drop the failed clients
retain_not_failed(registry, failed_clients) ==
    SelectSeq(registry, LAMBDA e : e \notin failed_clients)

\* Vec::retain of remove_timed_out_clients (state.rs 132-143)
retain_not_timed_out(registry, last, now) ==
    SelectSeq(registry, LAMBDA e : ~is_timed_out(last[e], now, CLIENT_TIMEOUT_MS))

\* mutant of remove_client: the entry is left in the registry
remove_client_none(registry, client_id) == registry

\* remove_client (state.rs 99-119): remove the entry of client_id, if present
remove_client(registry, client_id) ==
    SelectSeq(registry, LAMBDA e : e # client_id)

\* the registered client ids
Registered == {clients[i] : i \in 1..Len(clients)}

\* mutant of broadcast_origin: the origin is the uuid parsed from the payload's
\* client_id, which the client chose itself (client/src/main.rs 23) and which
\* is no key of the registry
broadcast_origin_from_payload(connection_id, payload_client_id) ==
    IF payload_client_id = IdLow THEN "c1" ELSE "c2"

\* the origin_id the reader passes to broadcast (reader.rs 165-169): the
\* client_id of its connection, not the client_id of the operation payload
broadcast_origin(connection_id, payload_client_id) == connection_id

\* the reader's locals while it runs broadcast: the frame, the clients still to
\* visit of clients_snapshot, failed_clients
BroadcastLocals(frame, payload_client_id) ==
    [op_kind |-> NoOp, frame |-> frame, client_id |-> payload_client_id,
     clients_snapshot |-> <<>>, failed_clients |-> {}]

\* history: the thread that removed each connection from the registry, and
\* the connection and time of the latest Pong received
StatsInit(cs) ==
    [evicted_by |-> [c \in cs |-> "none"],
     last_pong |-> [c |-> NoConn, at_ms |-> 0]]

ListenerAccepting(minted, last) ==
    [pc |-> "accept", c |-> NoConn, minted |-> minted, last |-> last]

\* mutant of welcome_snapshot: the welcome is the document as it was created
welcome_snapshot_initial(d) == SnapshotFrame(<<>>, 0)

\* main.rs 72-90: content and version cloned under one hold of the document
\* lock and wrapped in a SyncDocument frame
welcome_snapshot(d) == SnapshotFrame(d.content, d.version)

\* main.rs 49-57: the registry is full, the connection is dropped
RejectConnection ==
    /\ listener.pc = "accept"
    /\ connection_limit_reached(Len(clients))
    /\ listener' = [listener EXCEPT !.last = "rejected"]
    /\ UNCHANGED <<locks, net, conv, pipeline_vars, clients, queues, writer,
                   last_activity_ms, now_ms, hb, stats>>

\* main.rs 49-96: below the limit; mint the client_id, create the channel, read
\* content and version under the document lock, spawn the writer and send the
\* welcome snapshot into the channel
AcceptConnection ==
    /\ listener.pc = "accept"
    /\ ~connection_limit_reached(Len(clients))
    /\ listener.minted < Cardinality(DOMAIN pc)
    /\ doc_lock = NoThread
    /\ LET c == ConnOrder[listener.minted + 1] IN
        /\ writer' = [writer EXCEPT ![c] = "running"]
        /\ queues' = [queues EXCEPT ![c] = <<welcome_snapshot(doc)>>]
        /\ listener' = [listener EXCEPT !.pc = "register", !.c = c,
                                        !.minted = listener.minted + 1]
    /\ UNCHANGED <<locks, net, conv, pipeline_vars, clients, last_activity_ms, now_ms, hb, stats>>

\* main.rs 98-118: ClientEntry::new stamps the current time, add_client pushes
\* the entry unless the registry is full, the reader thread is spawned
RegisterClient ==
    /\ listener.pc = "register"
    /\ LET c == listener.c IN
        IF connection_limit_reached(Len(clients))
        THEN /\ pc' = [pc EXCEPT ![c] = "exited"]
             /\ listener' = [listener EXCEPT !.pc = "accept", !.c = NoConn,
                                             !.last = "rejected"]
             /\ UNCHANGED <<clients, last_activity_ms>>
        ELSE /\ clients' = Append(clients, c)
             /\ last_activity_ms' = [last_activity_ms EXCEPT ![c] = now_ms]
             /\ pc' = [pc EXCEPT ![c] = "idle"]
             /\ listener' = [listener EXCEPT !.pc = "accept", !.c = NoConn,
                                             !.last = "accepted"]
    /\ UNCHANGED <<locks, net, conv, doc, doc_lock, op_log, loc, applied, succeeded, any_failed, last_err,
                   queues, writer, now_ms, hb, stats>>

\* mutant of sync_snapshot: the content is read from the document again when
\* the frame is built, after the guard was dropped
sync_snapshot_reads_document_again(l, d) ==
    SnapshotFrame(d.content, l.new_version)

\* state.rs 248, 267-274: the frame is built from the (content, version) pair
\* that was copied out under the document lock, not from the document
sync_snapshot(l, d) == SnapshotFrame(l.updated_content, l.new_version)

\* state.rs 251-274 called from the reader loop (reader.rs 163-170): append the
\* log entry, return Ok(snapshot frame), the reader goes on to broadcast it
AppendLogAndReturn(t) ==
    /\ pc[t] = "append"
    /\ op_log' = append_log_arc(op_log, final_op(loc[t]))
    /\ succeeded' = succeeded + 1
    /\ loc' = [loc EXCEPT ![t] =
                  BroadcastLocals(sync_snapshot(loc[t], doc), loc[t].client_id)]
    /\ pc' = [pc EXCEPT ![t] = "broadcast"]
    /\ UNCHANGED <<locks, net, transport_vars, conv, doc, doc_lock, applied, any_failed, last_err>>

\* broadcaster.rs 16-19: clone the registry under its lock
BroadcastSnapshot(t) ==
    /\ pc[t] = "broadcast"
    /\ loc' = [loc EXCEPT ![t].clients_snapshot = clients]
    /\ pc' = [pc EXCEPT ![t] = "send"]
    /\ UNCHANGED <<locks, net, transport_vars, conv, doc, doc_lock, op_log, applied,
                   succeeded, any_failed, last_err>>

\* broadcaster.rs 21-45, one turn of the loop: skip the origin, try_send to
\* any other client and note it in failed_clients when the send fails
BroadcastSend(t) ==
    /\ pc[t] = "send"
    /\ loc[t].clients_snapshot # <<>>
    /\ LET x == Head(loc[t].clients_snapshot)
           r == try_send(queues[x], writer[x] = "running", loc[t].frame)
       IN  IF x = broadcast_origin(t, loc[t].client_id)
           THEN /\ loc' = [loc EXCEPT ![t].clients_snapshot = Tail(@)]
                /\ UNCHANGED <<queues, stats>>
           ELSE /\ queues' = [queues EXCEPT ![x] = r.queue]
                /\ loc' = [loc EXCEPT
                              ![t].clients_snapshot = Tail(@),
                              ![t].failed_clients =
                                  IF r.result = "Ok" THEN @ ELSE @ \cup {x}]
                /\ UNCHANGED stats
    /\ UNCHANGED <<locks, net, conv, doc, doc_lock, op_log, pc, applied, succeeded, any_failed, last_err,
                   clients, writer, last_activity_ms, now_ms, listener, hb>>

\* broadcaster.rs 47-59: remove the failed clients under the registry lock; the
\* reader goes back to read_frame
BroadcastRetain(t) ==
    /\ pc[t] = "send"
    /\ loc[t].clients_snapshot = <<>>
    /\ clients' = IF loc[t].failed_clients # {}
                  THEN retain_not_failed(clients, loc[t].failed_clients)
                  ELSE clients
    /\ stats' = [stats EXCEPT !.evicted_by =
                    [c \in DOMAIN @ |->
                        IF c \in Registered /\ c \in loc[t].failed_clients
                        THEN "broadcast" ELSE @[c]]]
    /\ loc' = [loc EXCEPT ![t] = LocIdle]
    /\ pc' = [pc EXCEPT ![t] = "idle"]
    /\ UNCHANGED <<locks, net, conv, doc, doc_lock, op_log, applied, succeeded, any_failed, last_err,
                   queues, writer, last_activity_ms, now_ms, listener, hb>>

\* reader.rs 187-206: read_frame fails (EOF, oversized frame, I/O error); the
\* loop ends, remove_client, the thread exits
ReaderExit(t) ==
    /\ pc[t] = "idle"
    /\ clients' = remove_client(clients, t)
    /\ pc' = [pc EXCEPT ![t] = "exited"]
    /\ UNCHANGED <<locks, net, conv, doc, doc_lock, op_log, loc, applied, succeeded, any_failed, last_err,
                   queues, writer, last_activity_ms, now_ms, listener, hb, stats>>

\* mutant of recv: the newest frame of the channel is received first
recv_newest(queue) ==
    [frame |-> queue[Len(queue)], queue |-> SubSeq(queue, 1, Len(queue) - 1)]

\* Receiver::recv on the channel (writer.rs 22): the oldest frame
recv(queue) == [frame |-> Head(queue), queue |-> Tail(queue)]

\* stream.write_all of prefix and payload (writer.rs 24-42); the bytes written
\* are kept as history where the sockets are followed
socket_write(n, c, frame) ==
    IF c \in DOMAIN n.outbound
    THEN [n EXCEPT !.outbound[c] = Append(@, frame)]
    ELSE n

\* writer.rs 22-48: recv a frame and write it to the socket
WriterWrite(c) ==
    /\ writer[c] = "running"
    /\ queues[c] # <<>>
    /\ LET r == recv(queues[c]) IN
          /\ queues' = [queues EXCEPT ![c] = r.queue]
          /\ net' = socket_write(net, c, r.frame)
    /\ UNCHANGED <<locks, conv, pipeline_vars, clients, writer, last_activity_ms,
                   now_ms, listener, hb, stats>>

\* writer.rs 28-42: write_all fails; the writer returns and drops the receiver
\* with the frames still in the channel
WriterFail(c) ==
    /\ writer[c] = "running"
    /\ queues[c] # <<>>
    /\ writer' = [writer EXCEPT ![c] = "exited"]
    /\ queues' = [queues EXCEPT ![c] = <<>>]
    /\ UNCHANGED <<locks, net, conv, pipeline_vars, clients, last_activity_ms,
                   now_ms, listener, hb, stats>>

\* ServerState::new and main.rs 25-41 before the first accept, with the
\* connections cs still to come
TransportInit(cs) ==
    /\ clients = <<>>
    /\ queues = [c \in cs |-> <<>>]
    /\ writer = [c \in cs |-> "none"]
    /\ last_activity_ms = [c \in cs |-> 0]
    /\ now_ms = 0
    /\ listener = ListenerAccepting(0, "none")
    /\ stats = StatsInit(cs)
    /\ locks = LocksFree

-----------------------------------------------------------------------------
(* SpecServer: the listener, two connections whose readers run the apply    *)
(* pipeline and broadcast, and their writers                                *)

\* the operation kinds connection t sends under SpecServer: an insert at the
\* front, a delete of the first character (out of bounds on an empty
\* document) and a Noop
ServerKinds(t, cv) ==
    {InsertOp(0, ReaderText(t), ReaderClientId(t), cv),
     DeleteOp(0, 1, ReaderClientId(t), cv),
     NoopOp(ReaderClientId(t), cv)}

\* every operation connection t receives under SpecServer: the well-formed
\* ones and one for each structural defect
ReceivedProtos(t) ==
    UNION {{Proto("doc", ReaderClientId(t), k, cv) : k \in ServerKinds(t, cv)} :
              cv \in 0..MaxVersion}
    \cup BadProtos(t)

InitServer ==
    /\ conv = ConvOff
    /\ doc = [content |-> <<>>, version |-> 0]
    /\ doc_lock = NoThread
    /\ op_log = <<>>
    /\ pc = [t \in Readers |-> "unborn"]
    /\ loc = [t \in Readers |-> LocIdle]
    /\ applied = <<>>
    /\ succeeded = 0
    /\ any_failed = FALSE
    /\ last_err = "none"
    /\ TransportInit(Readers)
    /\ hb = "off"
    /\ net = NetOff

NextServer ==
    \/ AcceptConnection
    \/ RegisterClient
    \/ \E t \in Readers :
        \/ \E proto \in ReceivedProtos(t) : RejectStructural(t, proto)
        \/ \E proto \in ReceivedProtos(t) : RejectFuture(t, proto)
        \/ \E proto \in ReceivedProtos(t) : LockDocument(t, proto)
        \/ Rebase(t)
        \/ ApplyOk(t)
        \/ ApplyErr(t)
        \/ AppendLogAndReturn(t)
        \/ BroadcastSnapshot(t)
        \/ BroadcastSend(t)
        \/ BroadcastRetain(t)
        \/ ReaderExit(t)
        \/ WriterWrite(t)

SpecServer == InitServer /\ [][NextServer]_vars

-----------------------------------------------------------------------------
(* SpecNoop: SpecServer's threads with operations that leave the content    *)
(* alone: r1 sends Noops, r2 sends deletes of nothing at the front (which   *)
(* rebase to a Noop past one another) and deletes of a first character that *)
(* is not there                                                             *)

NoopKinds(t, cv) ==
    IF t = "r1"
    THEN {NoopOp(ReaderClientId(t), cv)}
    ELSE {DeleteOp(0, 0, ReaderClientId(t), cv),
          DeleteOp(0, 1, ReaderClientId(t), cv)}

NoopProtos(t) ==
    UNION {{Proto("doc", ReaderClientId(t), k, cv) : k \in NoopKinds(t, cv)} :
              cv \in 0..MaxVersion}

NextNoop ==
    \/ AcceptConnection
    \/ RegisterClient
    \/ \E t \in Readers :
        \/ \E proto \in NoopProtos(t) : RejectFuture(t, proto)
        \/ \E proto \in NoopProtos(t) : LockDocument(t, proto)
        \/ Rebase(t)
        \/ ApplyOk(t)
        \/ ApplyErr(t)
        \/ AppendLogAndReturn(t)
        \/ BroadcastSnapshot(t)
        \/ BroadcastSend(t)
        \/ BroadcastRetain(t)
        \/ ReaderExit(t)
        \/ WriterWrite(t)

SpecNoop == InitServer /\ [][NextNoop]_vars

-----------------------------------------------------------------------------
(* SpecTransport: the listener, three connections with their readers and    *)
(* writers, and broadcast. Every operation a reader receives is a Noop      *)
(* authored at the current version, and its pipeline invocation runs        *)
(* without interruption.                                                    *)

\* reader.rs 160-170 with state.rs 189-275 run to completion on a Noop whose
\* client_version is document.version: apply, log, return the snapshot frame
ReceiveNoop(t) ==
    /\ pc[t] = "idle"
    /\ doc_lock = NoThread
    /\ doc.version < MaxVersion
    /\ LET kind == NoopOp(IdLow, doc.version)
           r == apply_op(doc, kind)
           l == [op_kind |-> kind, client_id |-> IdLow,
                 client_version |-> doc.version, new_version |-> r.doc.version]
       IN  /\ doc' = r.doc
           /\ op_log' = append_log_arc(op_log, final_op(l))
           /\ applied' = Append(applied, kind)
           /\ succeeded' = succeeded + 1
           /\ loc' = [loc EXCEPT ![t] =
                         BroadcastLocals(
                             SnapshotFrame(r.doc.content, r.doc.version), IdLow)]
           /\ pc' = [pc EXCEPT ![t] = "broadcast"]
    /\ UNCHANGED <<locks, net, transport_vars, conv, doc_lock, any_failed, last_err>>

InitTransport ==
    /\ conv = ConvOff
    /\ doc = [content |-> <<>>, version |-> 0]
    /\ doc_lock = NoThread
    /\ op_log = <<>>
    /\ pc = [t \in Connections |-> "unborn"]
    /\ loc = [t \in Connections |-> LocIdle]
    /\ applied = <<>>
    /\ succeeded = 0
    /\ any_failed = FALSE
    /\ last_err = "none"
    /\ TransportInit(Connections)
    /\ hb = "off"
    /\ net = NetOff

NextTransport ==
    \/ RejectConnection
    \/ AcceptConnection
    \/ RegisterClient
    \/ \E t \in Connections :
        \/ ReceiveNoop(t)
        \/ BroadcastSnapshot(t)
        \/ BroadcastSend(t)
        \/ BroadcastRetain(t)
        \/ ReaderExit(t)
        \/ WriterWrite(t)
        \/ WriterFail(t)

SpecTransport == InitTransport /\ [][NextTransport]_vars

-----------------------------------------------------------------------------
(* SpecLiveness: the listener, the clock and the heartbeat monitor, with    *)
(* two connections that send Pongs and no operations, their readers and     *)
(* writers                                                                  *)

\* reader.rs 156-186: the match on the decoded message has an arm for
\* Operation and an arm for SyncDocument and none that acts on a Pong;
\* ServerState::touch_client (state.rs 169-179) has no caller. The time of
\* the receipt is kept as history.
ReadPong(t) ==
    /\ pc[t] = "idle"
    /\ stats' = [stats EXCEPT !.last_pong = [c |-> t, at_ms |-> now_ms]]
    /\ UNCHANGED <<locks, net, conv, pipeline_vars, clients, queues, writer,
                   last_activity_ms, now_ms, listener, hb>>

\* the clock advances
Tick ==
    /\ now_ms + CLIENT_TIMEOUT_MS \div 2 <= MaxTicks * (CLIENT_TIMEOUT_MS \div 2)
    /\ now_ms' = now_ms + CLIENT_TIMEOUT_MS \div 2
    /\ UNCHANGED <<locks, net, conv, pipeline_vars, clients, queues, writer,
                   last_activity_ms, listener, hb, stats>>

\* run_heartbeat_loop (main.rs 135-145): the sleep is over, take the next
\* sequence number, remove_timed_out_clients (state.rs 123-146)
HeartbeatEvict ==
    /\ hb.pc = "sleep"
    /\ now_ms >= hb.wake_at
    /\ clients' = retain_not_timed_out(clients, last_activity_ms, now_ms)
    /\ stats' = [stats EXCEPT !.evicted_by =
                    [c \in DOMAIN @ |->
                        IF c \in Registered
                           /\ is_timed_out(last_activity_ms[c], now_ms, CLIENT_TIMEOUT_MS)
                        THEN "heartbeat" ELSE @[c]]]
    /\ hb' = [hb EXCEPT !.pc = "ping", !.seq = hb.ping_sequence,
                        !.ping_sequence = hb.ping_sequence + 1]
    /\ UNCHANGED <<locks, net, conv, pipeline_vars, queues, writer, last_activity_ms,
                   now_ms, listener>>

\* mutant of ping_all: the Ping goes to every connection with a channel,
\* registered or not
ping_all_unregistered_too(qs, registry, frame) ==
    [c \in DOMAIN qs |-> try_send(qs[c], writer[c] = "running", frame).queue]

\* mutant of ping_all: a client whose queue is full gets room made for the
\* Ping, its oldest frame is dropped
ping_all_makes_room(qs, registry, frame) ==
    [c \in DOMAIN qs |->
        IF c \in {registry[i] : i \in 1..Len(registry)}
        THEN IF Len(qs[c]) >= QueueCapacity /\ writer[c] = "running"
             THEN Append(Tail(qs[c]), frame)
             ELSE try_send(qs[c], writer[c] = "running", frame).queue
        ELSE qs[c]]

\* send_ping_to_all (state.rs 148-167): try_send the Ping to every registered
\* client, ignoring failures
ping_all(qs, registry, frame) ==
    [c \in DOMAIN qs |->
        IF c \in {registry[i] : i \in 1..Len(registry)}
        THEN try_send(qs[c], writer[c] = "running", frame).queue
        ELSE qs[c]]

\* run_heartbeat_loop (main.rs 147-151, 136): send_ping_to_all, then sleep
\* HEARTBEAT_INTERVAL_MS
HeartbeatPing ==
    /\ hb.pc = "ping"
    /\ queues' = ping_all(queues, clients, PingFrame(hb.seq))
    /\ hb' = [hb EXCEPT !.pc = "sleep", !.wake_at = now_ms + HEARTBEAT_INTERVAL_MS]
    /\ UNCHANGED <<locks, net, conv, pipeline_vars, clients, writer, last_activity_ms,
                   now_ms, listener, stats>>

InitLiveness ==
    /\ conv = ConvOff
    /\ doc = [content |-> <<>>, version |-> 0]
    /\ doc_lock = NoThread
    /\ op_log = <<>>
    /\ pc = [t \in Readers |-> "unborn"]
    /\ loc = [t \in Readers |-> LocIdle]
    /\ applied = <<>>
    /\ succeeded = 0
    /\ any_failed = FALSE
    /\ last_err = "none"
    /\ TransportInit(Readers)
    /\ hb = [pc |-> "sleep", wake_at |-> HEARTBEAT_INTERVAL_MS,
             seq |-> 0, ping_sequence |-> 0]
    /\ net = NetOff

NextLiveness ==
    \/ AcceptConnection
    \/ RegisterClient
    \/ Tick
    \/ HeartbeatEvict
    \/ HeartbeatPing
    \/ \E t \in Readers :
        \/ ReadPong(t)
        \/ ReaderExit(t)
        \/ WriterWrite(t)
        \/ WriterFail(t)

SpecLiveness == InitLiveness /\ [][NextLiveness]_vars

-----------------------------------------------------------------------------
(* SpecAdmission: the listener with one connection more than the registry   *)
(* admits; the connections send nothing, their readers exit on disconnect   *)

InitAdmission ==
    /\ conv = ConvOff
    /\ doc = [content |-> <<>>, version |-> 0]
    /\ doc_lock = NoThread
    /\ op_log = <<>>
    /\ pc = [t \in AdmissionConnections |-> "unborn"]
    /\ loc = [t \in AdmissionConnections |-> LocIdle]
    /\ applied = <<>>
    /\ succeeded = 0
    /\ any_failed = FALSE
    /\ last_err = "none"
    /\ TransportInit(AdmissionConnections)
    /\ hb = "off"
    /\ net = NetOff

NextAdmission ==
    \/ RejectConnection
    \/ AcceptConnection
    \/ RegisterClient
    \/ \E t \in AdmissionConnections :
        \/ ReaderExit(t)
        \/ WriterWrite(t)
        \/ WriterFail(t)

SpecAdmission == InitAdmission /\ [][NextAdmission]_vars

-----------------------------------------------------------------------------
(* SpecLocks: the three mutexes (document, OpLog, registry) and the places   *)
(* where the reader threads, the listener and the heartbeat monitor lock     *)
(* and unlock them; which branch a thread takes is left open                 *)

ListenerThread == "listener"
HeartbeatThread == "heartbeat"

\* a place in the code: go on without touching a mutex, block in
\* Mutex::lock until the mutex is free, or drop the guard
Step(from, to) == [from |-> from, op |-> "step", lock |-> "none", to |-> to]
Lock(from, lock, to) == [from |-> from, op |-> "lock", lock |-> lock, to |-> to]
Unlock(from, lock, to) == [from |-> from, op |-> "unlock", lock |-> lock, to |-> to]

\* the reader thread: run_reader_loop (reader.rs 156-207) calling
\* send_applied_op (state.rs 189-275) and broadcast (broadcaster.rs 12-59)
ReaderPath ==
    {Step("idle", "lock_document"),                          \* state.rs 193-211
     Lock("lock_document", "document", "validate"),          \* state.rs 214
     Unlock("validate", "document", "idle"),                 \* state.rs 221-229
     Step("validate", "apply"),                              \* state.rs 231
     Step("validate", "lock_op_log_range"),                  \* state.rs 231-235
     Lock("lock_op_log_range", "op_log", "in_op_log_range"), \* state.rs 235, types.rs 68
     Unlock("in_op_log_range", "op_log", "apply"),           \* state.rs 236-241
     Unlock("apply", "document", "idle"),                    \* state.rs 245-246
     Unlock("apply", "document", "lock_op_log_append"),      \* state.rs 249
     Lock("lock_op_log_append", "op_log", "in_op_log_append"), \* types.rs 122-124
     Unlock("in_op_log_append", "op_log", "lock_registry_snapshot"), \* types.rs 128
     Lock("lock_registry_snapshot", "registry", "in_registry_snapshot"), \* broadcaster.rs 17
     Unlock("in_registry_snapshot", "registry", "send_loop"), \* broadcaster.rs 19
     Step("send_loop", "idle"),                              \* broadcaster.rs 47
     Step("send_loop", "lock_registry_retain"),              \* broadcaster.rs 47
     Lock("lock_registry_retain", "registry", "in_registry_retain"), \* broadcaster.rs 48
     Unlock("in_registry_retain", "registry", "idle"),       \* broadcaster.rs 58
     Step("idle", "lock_registry_remove"),                   \* reader.rs 187-206
     Lock("lock_registry_remove", "registry", "in_registry_remove"), \* state.rs 100
     Unlock("in_registry_remove", "registry", "exited")}     \* state.rs 119

\* the listener thread: the accept path of main (main.rs 43-119)
ListenerPath ==
    {Step("accept", "lock_registry_count"),                          \* main.rs 43-50
     Lock("lock_registry_count", "registry", "in_registry_count"),   \* state.rs 93
     Unlock("in_registry_count", "registry", "accept"),              \* main.rs 50-57
     Unlock("in_registry_count", "registry", "lock_document"),       \* main.rs 50
     Lock("lock_document", "document", "in_document"),               \* main.rs 73
     Unlock("in_document", "document", "lock_registry_add"),         \* main.rs 79
     Lock("lock_registry_add", "registry", "in_registry_add"),       \* state.rs 66
     Unlock("in_registry_add", "registry", "accept")}                \* state.rs 89

\* the heartbeat thread: run_heartbeat_loop (main.rs 130-153)
HeartbeatPath ==
    {Step("sleep", "lock_registry_timeout"),                           \* main.rs 136-142
     Lock("lock_registry_timeout", "registry", "in_registry_timeout"), \* state.rs 124
     Unlock("in_registry_timeout", "registry", "lock_registry_ping"),  \* state.rs 146
     Lock("lock_registry_ping", "registry", "in_registry_ping"),       \* state.rs 151
     Unlock("in_registry_ping", "registry", "sleep")}                  \* state.rs 154

\* the thread that holds the mutex, or NoThread
Holder(lock) == IF lock = "document" THEN doc_lock ELSE locks[lock]

\* Mutex::lock returns the guard to thread th
mutex_lock(holder, th) == th

\* mutant of mutex_unlock: the guard is leaked, the mutex stays locked
mutex_unlock_leaked(holder) == holder

\* the guard is dropped
mutex_unlock(holder) == NoThread

SetHolder(lock, holder) ==
    IF lock = "document"
    THEN doc_lock' = holder /\ UNCHANGED locks
    ELSE locks' = [locks EXCEPT ![lock] = holder] /\ UNCHANGED doc_lock

\* thread th takes edge e of its path: Mutex::lock waits until the mutex is
\* free
Take(e, th) ==
    CASE e.op = "step" -> UNCHANGED <<doc_lock, locks>>
      [] e.op = "lock" ->
            /\ Holder(e.lock) = NoThread
            /\ SetHolder(e.lock, mutex_lock(Holder(e.lock), th))
      [] e.op = "unlock" -> SetHolder(e.lock, mutex_unlock(Holder(e.lock)))

ReaderThreadStep(t) ==
    /\ \E e \in ReaderPath :
          /\ e.from = pc[t]
          /\ Take(e, t)
          /\ pc' = [pc EXCEPT ![t] = e.to]
    /\ UNCHANGED <<net, transport_vars, conv, doc, op_log, loc, applied,
                   succeeded, any_failed, last_err>>

ListenerThreadStep ==
    /\ \E e \in ListenerPath :
          /\ e.from = listener.pc
          /\ Take(e, ListenerThread)
          /\ listener' = [listener EXCEPT !.pc = e.to]
    /\ UNCHANGED <<net, conv, doc, op_log, pc, loc, applied, succeeded, any_failed,
                   last_err, clients, queues, writer,
                   last_activity_ms, now_ms, hb, stats>>

HeartbeatThreadStep ==
    /\ \E e \in HeartbeatPath :
          /\ e.from = hb.pc
          /\ Take(e, HeartbeatThread)
          /\ hb' = [hb EXCEPT !.pc = e.to]
    /\ UNCHANGED <<net, conv, doc, op_log, pc, loc, applied, succeeded, any_failed,
                   last_err, clients, queues, writer,
                   last_activity_ms, now_ms, listener, stats>>

\* two connections are registered, their readers and writers run, the
\* listener waits in accept and the heartbeat monitor sleeps
InitLocks ==
    /\ conv = ConvOff
    /\ doc = [content |-> <<>>, version |-> 0]
    /\ doc_lock = NoThread
    /\ op_log = <<>>
    /\ pc = [t \in Readers |-> "idle"]
    /\ loc = [t \in Readers |-> LocIdle]
    /\ applied = <<>>
    /\ succeeded = 0
    /\ any_failed = FALSE
    /\ last_err = "none"
    /\ clients = <<"r1", "r2">>
    /\ queues = [c \in Readers |-> <<SnapshotFrame(<<>>, 0)>>]
    /\ writer = [c \in Readers |-> "running"]
    /\ last_activity_ms = [c \in Readers |-> 0]
    /\ now_ms = 0
    /\ listener = ListenerAccepting(2, "accepted")
    /\ hb = [pc |-> "sleep", wake_at |-> HEARTBEAT_INTERVAL_MS,
             seq |-> 0, ping_sequence |-> 0]
    /\ stats = StatsInit(Readers)
    /\ locks = LocksFree
    /\ net = NetOff

NextLocks ==
    \/ ListenerThreadStep
    \/ HeartbeatThreadStep
    \/ \E t \in Readers : ReaderThreadStep(t)

SpecLocks == InitLocks /\ [][NextLocks]_vars

-----------------------------------------------------------------------------
(* The sockets: the frames a client sends, Reader::read_frame,               *)
(* ServerMessage::decode and the dispatch of run_reader_loop                 *)

\* reader.rs 26
MAX_PAYLOAD_SIZE == 1048576

\* protocol.rs 19-22
MSG_TYPE_OPERATION == 1
MSG_TYPE_SYNC_DOCUMENT == 2
MSG_TYPE_PING == 3
MSG_TYPE_PONG == 4

\* the operations a client sends on one connection, and with them the
\* frames that may wait unread on its socket
MaxSent == 2

\* a frame on the wire: the length prefix, and of the payload the type id and
\* the length of the body behind the 4 length bytes and the type byte
\* (protocol.rs 26); op_id numbers the operations of the connection in the
\* order the client sent them; prefix tells whether the reader has consumed
\* the 4 prefix bytes
WireFrame(length, type_id, body_len, op_id) ==
    [length |-> length, type_id |-> type_id, body_len |-> body_len,
     op_id |-> op_id, prefix |-> "unread", eof |-> FALSE]

\* the client has closed the connection: read_exact meets the end of the stream
EndOfStream ==
    [length |-> 0, type_id |-> 0, body_len |-> 0, op_id |-> 0,
     prefix |-> "unread", eof |-> TRUE]

\* an Operation envelope, small or with a payload of exactly MAX_PAYLOAD_SIZE
OpFrame(op_id) == WireFrame(5 + 8, MSG_TYPE_OPERATION, 8, op_id)
AtLimitFrame(op_id) ==
    WireFrame(MAX_PAYLOAD_SIZE, MSG_TYPE_OPERATION, MAX_PAYLOAD_SIZE - 5, op_id)

\* a length prefix of 0: no payload
ZeroLengthFrame == WireFrame(0, 0, 0, 0)

\* a declared length above the limit
OversizedFrame ==
    WireFrame(MAX_PAYLOAD_SIZE + 1, MSG_TYPE_OPERATION, MAX_PAYLOAD_SIZE - 4, 0)

\* malformed envelopes: a type id decode does not know, a Pong whose body is shorter than
\* the 8 bytes of its sequence number
UnknownTypeFrame == WireFrame(5 + 8, MSG_TYPE_PONG + 1, 8, 0)
ShortPongFrame == WireFrame(5 + 1, MSG_TYPE_PONG, 1, 0)

\* a well-formed Pong
PongFrame == WireFrame(5 + 8, MSG_TYPE_PONG, 8, 0)

\* mutant of read_frame: a length equal to MAX_PAYLOAD_SIZE is too large
read_frame_limit_inclusive(stream) ==
    LET f == Head(stream)
    IN  IF f.eof THEN [result |-> "Disconnected", frame |-> f, rest |-> stream]
        ELSE IF f.length = 0 THEN [result |-> "Ok", frame |-> f, rest |-> Tail(stream)]
        ELSE IF f.length >= MAX_PAYLOAD_SIZE
             THEN [result |-> "PayloadTooLarge", frame |-> f,
                   rest |-> <<[f EXCEPT !.prefix = "read"]>> \o Tail(stream)]
        ELSE [result |-> "Ok", frame |-> f, rest |-> Tail(stream)]

\* Reader::read_frame (reader.rs 25-62): read the prefix; the end of the
\* stream is Disconnected; a length of 0 is an empty frame; a length above
\* MAX_PAYLOAD_SIZE is PayloadTooLarge and the payload stays unread; otherwise
\* the payload is read
read_frame(stream) ==
    LET f == Head(stream)
    IN  IF f.eof THEN [result |-> "Disconnected", frame |-> f, rest |-> stream]
        ELSE IF f.length = 0 THEN [result |-> "Ok", frame |-> f, rest |-> Tail(stream)]
        ELSE IF f.length > MAX_PAYLOAD_SIZE
             THEN [result |-> "PayloadTooLarge", frame |-> f,
                   rest |-> <<[f EXCEPT !.prefix = "read"]>> \o Tail(stream)]
        ELSE [result |-> "Ok", frame |-> f, rest |-> Tail(stream)]

\* ServerMessage::decode (protocol.rs 58-109): Buf::get_u32 and Buf::get_u8
\* (63, 66) panic when the payload has fewer than 4 + 1 bytes; then the match
\* on the type id
decode(f) ==
    IF f.length < 4 THEN "panic"
    ELSE IF f.length < 5 THEN "panic"
    ELSE CASE f.type_id = MSG_TYPE_OPERATION -> "Operation"
           [] f.type_id = MSG_TYPE_SYNC_DOCUMENT -> "SyncDocument"
           [] f.type_id = MSG_TYPE_PING -> IF f.body_len < 8 THEN "Err" ELSE "Ping"
           [] f.type_id = MSG_TYPE_PONG -> IF f.body_len < 8 THEN "Err" ELSE "Pong"
           [] OTHER -> "Err"

\* the sockets of connections cs, nothing sent, read or written yet
NetInit(cs) ==
    [inbound |-> [c \in cs |-> <<>>],
     sent |-> [c \in cs |-> 0],
     handed |-> [c \in cs |-> <<>>],
     outbound |-> [c \in cs |-> <<>>]]

\* the frames the client of a connection may send next
OpFrames(n, c) == IF n.sent[c] < MaxSent THEN {OpFrame(n.sent[c] + 1)} ELSE {}

AnyFrames(n, c) ==
    (IF n.sent[c] < MaxSent
     THEN {OpFrame(n.sent[c] + 1), AtLimitFrame(n.sent[c] + 1)} ELSE {})
    \cup {ZeroLengthFrame, OversizedFrame, UnknownTypeFrame, ShortPongFrame,
          PongFrame, EndOfStream}

\* the client of connection c sends frame f (client/src/main.rs 160-185), or
\* closes the connection; the socket holds at most MaxSent unread frames
ClientSend(c, f) ==
    /\ pc[c] \in {"idle", "broadcast", "send"}
    /\ Len(net.inbound[c]) < MaxSent
    /\ net.inbound[c] # <<>> => ~net.inbound[c][Len(net.inbound[c])].eof
    /\ net' = [net EXCEPT !.inbound[c] = Append(@, f),
                          !.sent[c] = IF f.op_id > 0 THEN f.op_id ELSE @]
    /\ UNCHANGED <<locks, transport_vars, conv, pipeline_vars>>

\* run_reader_loop (reader.rs 156-207), one turn: read_frame; on a read
\* error leave the loop, remove_client and exit; decode the payload; a panic
\* in decode ends the thread where it stands; an Operation goes through
\* send_applied_op (the operation here is a Noop authored at the current
\* version) and the reader goes on to broadcast the returned frame; a
\* decode error is logged; for every other message there is nothing to do
ReadFrame(t) ==
    /\ pc[t] = "idle"
    /\ doc_lock = NoThread
    /\ net.inbound[t] # <<>>
    /\ LET r == read_frame(net.inbound[t])
           m == decode(r.frame)
           kind == NoopOp(ReaderClientId(t), doc.version)
           a == apply_op(doc, kind)
           l == [op_kind |-> kind, client_id |-> ReaderClientId(t),
                 client_version |-> doc.version, new_version |-> a.doc.version]
       IN  IF r.result # "Ok"
           THEN /\ clients' = remove_client(clients, t)
                /\ pc' = [pc EXCEPT ![t] = "exited"]
                /\ net' = [net EXCEPT !.inbound[t] = r.rest]
                /\ UNCHANGED <<doc, op_log, loc, applied, succeeded>>
           ELSE IF m = "panic"
           THEN /\ pc' = [pc EXCEPT ![t] = "panicked"]
                /\ net' = [net EXCEPT !.inbound[t] = r.rest]
                /\ UNCHANGED <<doc, op_log, loc, applied, succeeded, clients>>
           ELSE IF m = "Operation"
           THEN /\ doc' = a.doc
                /\ op_log' = append_log_arc(op_log, final_op(l))
                /\ applied' = Append(applied, kind)
                /\ succeeded' = succeeded + 1
                /\ loc' = [loc EXCEPT ![t] =
                              BroadcastLocals(
                                  SnapshotFrame(a.doc.content, a.doc.version),
                                  ReaderClientId(t))]
                /\ pc' = [pc EXCEPT ![t] = "broadcast"]
                /\ net' = [net EXCEPT
                              !.inbound[t] = r.rest,
                              !.handed[t] =
                                  Append(@, [op_id |-> r.frame.op_id,
                                             length |-> r.frame.length,
                                             server_version |->
                                                 final_op(l).server_version])]
                /\ UNCHANGED clients
           ELSE /\ net' = [net EXCEPT !.inbound[t] = r.rest]
                /\ UNCHANGED <<doc, op_log, pc, loc, applied, succeeded, clients>>
    /\ UNCHANGED <<locks, conv, doc_lock, any_failed, last_err, queues, writer,
                   last_activity_ms, now_ms, listener, hb, stats>>

\* the server before the first accept; the sockets are followed
InitReader ==
    /\ conv = ConvOff
    /\ doc = [content |-> <<>>, version |-> 0]
    /\ doc_lock = NoThread
    /\ op_log = <<>>
    /\ pc = [t \in Readers |-> "unborn"]
    /\ loc = [t \in Readers |-> LocIdle]
    /\ applied = <<>>
    /\ succeeded = 0
    /\ any_failed = FALSE
    /\ last_err = "none"
    /\ TransportInit(Readers)
    /\ hb = "off"
    /\ net = NetInit(Readers)

\* SpecFifo: two connections whose clients send operations only
NextFifo ==
    \/ AcceptConnection
    \/ RegisterClient
    \/ \E t \in Readers :
        \/ \E f \in OpFrames(net, t) : ClientSend(t, f)
        \/ ReadFrame(t)
        \/ BroadcastSnapshot(t)
        \/ BroadcastSend(t)
        \/ BroadcastRetain(t)
        \/ WriterWrite(t)

SpecFifo == InitReader /\ [][NextFifo]_vars

\* SpecFraming: two connections; the client of the first sends frames of
\* every sort, each read before the next is sent, the client of the second
\* only listens
NextFraming ==
    \/ AcceptConnection
    \/ RegisterClient
    \/ \E f \in AnyFrames(net, ConnOrder[1]) :
          net.inbound[ConnOrder[1]] = <<>> /\ ClientSend(ConnOrder[1], f)
    \/ \E t \in Readers :
        \/ ReadFrame(t)
        \/ BroadcastSnapshot(t)
        \/ BroadcastSend(t)
        \/ BroadcastRetain(t)
        \/ WriterWrite(t)

\* as InitReader, but what the writers put on the sockets is not kept
InitFraming ==
    /\ conv = ConvOff
    /\ doc = [content |-> <<>>, version |-> 0]
    /\ doc_lock = NoThread
    /\ op_log = <<>>
    /\ pc = [t \in Readers |-> "unborn"]
    /\ loc = [t \in Readers |-> LocIdle]
    /\ applied = <<>>
    /\ succeeded = 0
    /\ any_failed = FALSE
    /\ last_err = "none"
    /\ TransportInit(Readers)
    /\ hb = "off"
    /\ net = [NetInit(Readers) EXCEPT !.outbound = <<>>]

SpecFraming == InitFraming /\ [][NextFraming]_vars

-----------------------------------------------------------------------------
(* Claims about transform, checked under SpecTransform *)

\* both application orders succeeded and left the same content
Converged ==
    /\ conv.path1.ok
    /\ conv.path2.ok
    /\ conv.path1.content = conv.path2.content

\* C1: TP1 convergence. For every document D and every two operations a, b of
\* different clients that are valid at D, applying a and then transform(b, a)
\* gives the same content as applying b and then transform(a, b).
C1_TP1Convergence ==
    conv.stage = "applied" => Converged

\* C6: Insert/Insert tie-break. Two Inserts of different clients valid at D
\* converge in both application orders, also at the same index; at the same
\* index the insert of the lexicographically greater client id ("B" > "AB") is
\* shifted right by the length of the other's text and the other stays in place.
C6_InsertInsertTieBreak ==
    (conv.stage = "applied" /\ conv.a.kind = "Insert" /\ conv.b.kind = "Insert") =>
        /\ Converged
        /\ (conv.a.index = conv.b.index /\ conv.a.client_id = IdHigh) =>
              /\ conv.a_after_b = [conv.a EXCEPT !.index = conv.a.index + Len(conv.b.text)]
              /\ conv.b_after_a = conv.b
        /\ (conv.a.index = conv.b.index /\ conv.b.client_id = IdHigh) =>
              /\ conv.b_after_a = [conv.b EXCEPT !.index = conv.b.index + Len(conv.a.text)]
              /\ conv.a_after_b = conv.a

\* C6 witness: two inserts of different non-empty texts at the same index, applied
C6_Witness ==
    /\ conv.stage = "applied"
    /\ conv.a.kind = "Insert" /\ conv.b.kind = "Insert"
    /\ conv.a.index = conv.b.index /\ conv.a.index = 1
    /\ conv.a.text = <<"X">> /\ conv.b.text = <<"Y">>
    /\ conv.a.client_id = IdHigh
    /\ conv.path1.content = <<"a", "Y", "X", "b">>
    /\ conv.path2.content = <<"a", "Y", "X", "b">>

\* C7: Insert/Delete convergence. For every Insert a and Delete b valid at D,
\* wherever a.index lies relative to [b.start, b.end), both orders converge.
C7_InsertDeleteConvergence ==
    (conv.stage = "applied" /\ conv.a.kind = "Insert" /\ conv.b.kind = "Delete") =>
        Converged

\* C8: Delete/Delete convergence. Two Deletes valid at D (disjoint, overlapping,
\* nested or identical) converge, and a transformed delete is either a Noop
\* (mapped range of zero width) or a Delete of a non-empty range.
C8_DeleteDeleteConvergence ==
    (conv.stage = "applied" /\ conv.a.kind = "Delete" /\ conv.b.kind = "Delete") =>
        /\ Converged
        /\ \A r \in {conv.a_after_b, conv.b_after_a} :
              \/ r.kind = "Noop"
              \/ r.kind = "Delete" /\ r.start < r.end

\* C8 witness: partially overlapping deletes [0,2) and [1,3) of "abc", applied
C8_Witness ==
    /\ conv.stage = "applied"
    /\ conv.D.content = <<"a", "b", "c">>
    /\ conv.a.kind = "Delete" /\ conv.a.start = 0 /\ conv.a.end = 2
    /\ conv.b.kind = "Delete" /\ conv.b.start = 1 /\ conv.b.end = 3
    /\ conv.b_after_a.kind = "Delete"
    /\ conv.path1.ok /\ conv.path1.content = <<>>
    /\ conv.path2.ok /\ conv.path2.content = <<>>

\* C9: Replace-collapse scenario. On "abcdefgh" with A = Replace(2,6,"ZZ") and
\* B = Delete(1,7): transform(B, A) is Delete(1,3), transform(A, B) is
\* Insert(1,"ZZ"), and both application orders end with the same content.
C9_ReplaceCollapseScenario ==
    (conv.stage = "applied" /\ conv.D = ScenarioDoc
        /\ conv.a = ScenarioA /\ conv.b = ScenarioB) =>
        /\ conv.b_after_a = DeleteOp(1, 3, IdHigh, 1)
        /\ conv.a_after_b = InsertOp(1, <<"Z", "Z">>, IdLow, 1)
        /\ Converged

\* the range of Replace op as mapped past prev by the index maps of the rule
\* for prev's kind (a Noop maps nothing)
MappedRange(op, prev) ==
    CASE prev.kind = "Noop" -> <<op.start, op.end>>
      [] prev.kind = "Insert" ->
            <<shift_range_after_insert(op, prev.index, Len(prev.text)).start,
              shift_range_after_insert(op, prev.index, Len(prev.text)).end>>
      [] prev.kind = "Delete" ->
            <<map_index_after_deletion(op.start, prev.start, prev.end),
              map_index_after_deletion(op.end, prev.start, prev.end)>>
      [] prev.kind = "Replace" ->
            <<map_index_after_insertion(
                  map_index_after_deletion(op.start, prev.start, prev.end),
                  prev.start, Len(prev.text)),
              map_index_after_insertion(
                  map_index_after_deletion(op.end, prev.start, prev.end),
                  prev.start, Len(prev.text))>>

\* C10 as stated: whenever transforming a Replace(s,e,t) past any prev maps its
\* range to zero width at p, the result is Insert(p, t) with the input's
\* client_id and client_version (never a Noop, never a zero-width Replace).
C10_CollapseAlwaysInsert ==
    (conv.stage # "start" /\ conv.a.kind = "Replace") =>
        LET m == MappedRange(conv.a, conv.b) IN
        m[1] = m[2] =>
            conv.a_after_b = InsertOp(m[1], conv.a.text,
                                      conv.a.client_id, conv.a.client_version)

\* C10 amended: transforming a Replace(s,e,t) never loses t: the result is an
\* Insert or a Replace carrying t and the input's client_id and client_version,
\* never a Noop; past a Delete or a Replace a range mapped to zero width at p
\* gives Insert(p, t); a zero-width Replace is returned only for a Replace that
\* was zero-width already, past an Insert or a Noop.
C10_TextPreserved ==
    (conv.stage # "start" /\ conv.a.kind = "Replace") =>
        LET m == MappedRange(conv.a, conv.b)
            r == conv.a_after_b
        IN  /\ r.kind \in {"Insert", "Replace"}
            /\ r.text = conv.a.text
            /\ r.client_id = conv.a.client_id
            /\ r.client_version = conv.a.client_version
            /\ (conv.b.kind \in {"Delete", "Replace"} /\ m[1] = m[2]) =>
                  r = InsertOp(m[1], conv.a.text,
                               conv.a.client_id, conv.a.client_version)
            /\ conv.b.kind \in {"Insert", "Noop"} =>
                  /\ r.kind = "Replace"
                  /\ (r.start = r.end) <=> (conv.a.start = conv.a.end)
            /\ (r.kind = "Replace" /\ r.start = r.end) =>
                  (conv.a.start = conv.a.end /\ conv.b.kind \in {"Insert", "Noop"})

\* C10 witness: Replace(1,2,"X") past Delete(0,3) collapses to Insert(0,"X")
C10_Witness ==
    /\ conv.stage = "transformed"
    /\ conv.a = ReplaceOp(1, 2, <<"X">>, IdLow, 0)
    /\ conv.b.kind = "Delete" /\ conv.b.start = 0 /\ conv.b.end = 3
    /\ conv.a_after_b = InsertOp(0, <<"X">>, IdLow, 0)

\* C11: Delete idempotence under concurrency. A Delete whose range is entirely
\* covered by the previously applied Delete of another client (in particular a
\* Delete of the very same range) transforms to a Noop carrying its own
\* client_id and client_version.
C11_DeleteIdempotence ==
    (conv.stage # "start" /\ conv.a.kind = "Delete" /\ conv.b.kind = "Delete"
        /\ conv.b.start <= conv.a.start /\ conv.a.end <= conv.b.end) =>
        conv.a_after_b = NoopOp(conv.a.client_id, conv.a.client_version)

\* C11 witness: both clients delete [1,3) of "abc"; each transformed past the
\* other is a Noop with its own identity, and both orders leave "a"
C11_Witness ==
    /\ conv.stage = "applied"
    /\ conv.D.content = <<"a", "b", "c">>
    /\ conv.a = DeleteOp(1, 3, IdLow, 0)
    /\ conv.b = DeleteOp(1, 3, IdHigh, 1)
    /\ conv.a_after_b = NoopOp(IdLow, 0)
    /\ conv.b_after_a = NoopOp(IdHigh, 1)
    /\ conv.path1.ok /\ conv.path1.content = <<"a">>
    /\ conv.path2.ok /\ conv.path2.content = <<"a">>

\* C12: Noop identity. transform(a, Noop) returns a with kind, indices, text,
\* client_id and client_version unchanged; transform(Noop, a) returns a Noop
\* carrying the client_id and client_version of the input Noop.
C12_NoopIdentity ==
    conv.stage # "start" =>
        /\ conv.b.kind = "Noop" => conv.a_after_b = conv.a
        /\ conv.a.kind = "Noop" =>
              conv.a_after_b = NoopOp(conv.a.client_id, conv.a.client_version)

\* C12 witness: Replace(0,1,"XY") of client "AB" and a Noop of client "B",
\* each transformed past the other
C12_Witness ==
    /\ conv.stage = "transformed"
    /\ conv.a = ReplaceOp(0, 1, <<"X", "Y">>, IdLow, 0)
    /\ conv.b = NoopOp(IdHigh, 1)
    /\ conv.a_after_b = conv.a
    /\ conv.b_after_a = conv.b

-----------------------------------------------------------------------------
(* Claims about the apply pipeline, checked under Spec *)

\* C2: version check, rebase, apply and log append are one critical section
\* under the document lock: no other invocation acquires the document lock
\* after an invocation's apply and before that invocation's log append.
C2_CriticalSection ==
    \A t \in Readers : \A u \in Readers \ {t} :
        ~(pc[t] = "append" /\ doc_lock = u)

\* C3: monotonic version. When N invocations have returned Ok and none is in
\* progress, document.version = N and the log holds exactly N entries whose
\* server_version values are exactly 0..N-1; failed invocations add nothing.
C3_MonotonicVersion ==
    (\A t \in Readers : pc[t] = "idle") =>
        /\ doc.version = succeeded
        /\ Len(op_log) = succeeded
        /\ {op_log[k].server_version : k \in 1..Len(op_log)} = 0..(succeeded - 1)

\* C3 witness: two invocations succeeded, one failed, nothing in progress
C3_Witness ==
    /\ \A t \in Readers : pc[t] = "idle"
    /\ succeeded = 2
    /\ any_failed
    /\ doc.version = 2
    /\ Len(op_log) = 2

\* C4: rebase completeness. An invocation holding the document lock with
\* client_version v_c < v_s = document.version folds transform over exactly
\* the operations applied at versions v_c .. v_s-1, in ascending order.
C4_RebaseComplete ==
    \A t \in Readers :
        (pc[t] = "apply" /\ loc[t].client_version < doc.version) =>
            [k \in 1..Len(loc[t].past_ops) |-> loc[t].past_ops[k].kind]
                = SubSeq(applied, loc[t].client_version + 1, doc.version)

\* C5: OpLog order. The entry at position k is stamped server_version = k and
\* is the operation that took the document from version k to k+1.
C5_OpLogOrder ==
    \A k \in 1..Len(op_log) :
        /\ op_log[k].server_version = k - 1
        /\ op_log[k].kind = applied[k]

-----------------------------------------------------------------------------
(* Claims about the reader loop, the pipeline and broadcast, checked under   *)
(* SpecServer                                                                *)

\* reader t is in send_applied_op, past the structural checks
InPipeline(t) == pc[t] \in {"rebase", "apply", "append"}

\* the welcome snapshot of an empty document
Welcome0 == SnapshotFrame(<<>>, 0)

\* C13: broadcast exclusion. No step of the broadcast that reader t runs for
\* the snapshot of its own successful apply enqueues anything on t's own
\* outbound queue: the excluded origin is the connection's server-minted
\* client_id, whatever client_id the operation payload carries.
C13_BroadcastExclusion ==
    [][\A t \in DOMAIN pc :
          (pc[t] \in {"broadcast", "send"} /\ loc'[t] # loc[t]) =>
              queues'[t] = queues[t]]_vars

\* C13 witness: r1's insert was applied and r1's broadcast has visited both
\* registered clients: r2 holds the snapshot behind its welcome, r1 only its
\* welcome
C13_Witness ==
    /\ pc["r1"] = "send"
    /\ loc["r1"].clients_snapshot = <<>>
    /\ loc["r1"].frame = SnapshotFrame(<<"X">>, 1)
    /\ clients = <<"r1", "r2">>
    /\ queues["r1"] = <<Welcome0>>
    /\ queues["r2"] = <<Welcome0, SnapshotFrame(<<"X">>, 1)>>

\* an invocation past the checks of state.rs 195-229 holds an operation with
\* a doc_id, a client_id that is a uuid, a kind, and a client_version that is
\* not ahead of the document
C18_OnlyValidPassTheChecks ==
    \A t \in DOMAIN pc :
        InPipeline(t) =>
            /\ loc[t].doc_id # ""
            /\ loc[t].client_id # BadUuid
            /\ loc[t].op_kind # NoOp
            /\ loc[t].client_version <= doc.version

\* a step that returns Err(InvalidData) changes nothing but the error history
C18_RejectionChangesNothing ==
    (last_err # "InvalidData" /\ last_err' = "InvalidData") =>
        /\ UNCHANGED <<doc, doc_lock, op_log, applied, succeeded>>
        /\ UNCHANGED <<clients, queues, writer>>
        /\ UNCHANGED <<pc, loc>>

InBounds(op, len) ==
    CASE op.kind = "Insert" -> op.index <= len
      [] op.kind \in {"Delete", "Replace"} -> op.start <= op.end /\ op.end <= len
      [] op.kind = "Noop" -> TRUE

\* C19: apply errors change nothing. The apply step of an invocation succeeds
\* exactly when the rebased operation is within the bounds of the content;
\* otherwise the invocation returns Err, document content and version are
\* unchanged, nothing is appended to the OpLog, nothing is enqueued on any
\* queue, the registry is unchanged and the reader goes on reading.
C19_ApplyErrorsChangeNothing ==
    [][\A t \in DOMAIN pc :
          (pc[t] = "apply" /\ pc'[t] # "apply") =>
              IF InBounds(loc[t].op_kind, Len(doc.content))
              THEN pc'[t] = "append" /\ doc'.version = doc.version + 1
              ELSE /\ pc'[t] = "idle"
                   /\ last_err' = "Other"
                   /\ UNCHANGED <<doc, op_log, applied, succeeded>>
                   /\ UNCHANGED <<clients, queues, writer>>]_vars

\* C19 witness: a Delete(0,1) on the empty document was rejected by apply;
\* document, OpLog, registry and queues are as they were before it and both
\* readers are reading
C19_Witness ==
    /\ last_err = "Other"
    /\ doc = [content |-> <<>>, version |-> 0]
    /\ op_log = <<>>
    /\ clients = <<"r1", "r2">>
    /\ queues = [t \in Readers |-> <<Welcome0>>]
    /\ \A t \in Readers : pc[t] = "idle"

-----------------------------------------------------------------------------
(* Claims about broadcast and the outbound queues, checked under             *)
(* SpecTransport                                                             *)

\* reader t is inside broadcast
InBroadcast(t) == pc[t] \in {"broadcast", "send"}

\* reader t takes one turn of the loop of broadcast, on client x
LoopTurn(t, x) ==
    /\ pc[t] = "send"
    /\ loc[t].clients_snapshot # <<>>
    /\ x = Head(loc[t].clients_snapshot)
    /\ loc'[t] # loc[t]

\* reader t leaves broadcast
BroadcastReturns(t) == pc[t] = "send" /\ pc'[t] = "idle"

\* a broadcasting thread always has a step to take, whatever the queues hold
C14_NonBlocking ==
    \A t \in DOMAIN pc :
        InBroadcast(t) =>
            ENABLED (BroadcastSnapshot(t) \/ BroadcastSend(t) \/ BroadcastRetain(t))

\* a full queue gets no frame and its client is marked; the marked clients
\* are out of the registry when the broadcast returns
C14_FullQueueEvicts ==
    \A t \in DOMAIN pc :
        /\ \A x \in DOMAIN queues :
              (LoopTurn(t, x) /\ x # t /\ Len(queues[x]) >= QueueCapacity) =>
                  /\ queues'[x] = queues[x]
                  /\ x \in loc'[t].failed_clients
        /\ BroadcastReturns(t) =>
              \A x \in loc[t].failed_clients :
                  \A i \in 1..Len(clients') : clients'[i] # x

\* C14: slow-consumer eviction. A broadcast from another origin that reaches
\* a client whose queue holds its full capacity of frames enqueues nothing
\* to it and removes it from the registry when it returns; the broadcasting
\* thread never waits: each of its steps is enabled whatever the queues hold.
C14_SlowConsumerEviction ==
    [](C14_NonBlocking) /\ [][C14_FullQueueEvicts]_vars

\* C14 witness: a client with a running writer and a full queue was removed
\* by a broadcast, and no broadcast is under way
C14_Witness ==
    \E x \in Connections :
        /\ stats.evicted_by[x] = "broadcast"
        /\ writer[x] = "running"
        /\ Len(queues[x]) = QueueCapacity
        /\ x \notin Registered
        /\ \A t \in Connections : ~InBroadcast(t)

\* C15: broadcast isolation. In every turn of the loop on a client other
\* than the origin whose queue has free capacity and whose writer holds the
\* receiver, the frame is appended to that queue and the client is not
\* marked, whoever was marked before; the origin is never sent the frame nor
\* marked; when the broadcast returns the registry has lost exactly the
\* marked clients and keeps the others in their order.
C15_BroadcastIsolation ==
    [][\A t \in DOMAIN pc :
          /\ \A x \in DOMAIN queues :
                LoopTurn(t, x) =>
                    /\ \A y \in DOMAIN queues \ {x} : queues'[y] = queues[y]
                    /\ (x # t /\ Len(queues[x]) < QueueCapacity
                             /\ writer[x] = "running") =>
                          /\ queues'[x] = Append(queues[x], loc[t].frame)
                          /\ loc'[t].failed_clients = loc[t].failed_clients
                    /\ x = t =>
                          /\ queues'[x] = queues[x]
                          /\ loc'[t].failed_clients = loc[t].failed_clients
          /\ BroadcastReturns(t) =>
                clients' = SelectSeq(clients,
                               LAMBDA e : e \notin loc[t].failed_clients)]_vars

\* C15 witness: a broadcast of r1 has visited r2 and r3; r2's queue was full
\* and r2 is marked, r3 was sent the frame; the broadcast has then returned
\* and the registry holds r1 and r3
C15_Witness ==
    /\ clients = <<"r1", "r3">>
    /\ stats.evicted_by["r2"] = "broadcast"
    /\ Len(queues["r2"]) = QueueCapacity
    /\ queues["r2"][Len(queues["r2"])].version < doc.version
    /\ queues["r3"] # <<>>
    /\ queues["r3"][Len(queues["r3"])].version = doc.version
    /\ \A t \in Connections : ~InBroadcast(t)
    /\ \A t \in Connections : queues[t] # <<>> =>
           queues[t][Len(queues[t])].version <= doc.version

-----------------------------------------------------------------------------
(* Claims about the heartbeat monitor, checked under SpecLiveness            *)

\* the heartbeat monitor runs remove_timed_out_clients
HeartbeatTick == hb.pc = "sleep" /\ hb'.pc = "ping"

\* the last-activity age of client c
Age(c) == now_ms - last_activity_ms[c]

\* C16: heartbeat eviction. On every heartbeat tick the registry loses
\* exactly the registered clients whose last-activity age is strictly
\* greater than CLIENT_TIMEOUT_MS; the clients whose age is at most
\* CLIENT_TIMEOUT_MS stay registered, in their order, with their timestamp,
\* their queue and their writer unchanged.
C16_HeartbeatEviction ==
    [][HeartbeatTick =>
          /\ clients' = SelectSeq(clients, LAMBDA c : Age(c) <= CLIENT_TIMEOUT_MS)
          /\ \A c \in Registered :
                Age(c) <= CLIENT_TIMEOUT_MS =>
                    /\ last_activity_ms'[c] = last_activity_ms[c]
                    /\ queues'[c] = queues[c]
                    /\ writer'[c] = writer[c]]_vars

\* C16 witness: a heartbeat tick has removed r1 and kept r2, whose age is
\* exactly CLIENT_TIMEOUT_MS
C16_Witness ==
    /\ hb.pc = "ping"
    /\ stats.evicted_by["r1"] = "heartbeat"
    /\ clients = <<"r2">>
    /\ Age("r2") = CLIENT_TIMEOUT_MS

\* C17: Pong refreshes liveness. Once the reader of connection C has received
\* a Pong, C's last-activity timestamp is not older than the receipt of its
\* latest Pong.
C17_PongRefreshesLiveness ==
    stats.last_pong.c # NoConn =>
        last_activity_ms[stats.last_pong.c] >= stats.last_pong.at_ms

-----------------------------------------------------------------------------
(* Claims about admission, checked under SpecAdmission                       *)

\* the listener decides on an incoming connection (main.rs 49-57)
AcceptDecision == listener.pc = "accept" /\ listener' # listener

\* the listener registers the connection it admitted (main.rs 98-118)
Registration == listener.pc = "register" /\ listener' # listener

\* the registry never holds more than MAX_CLIENTS entries
C20_RegistryBounded == Len(clients) <= MAX_CLIENTS

\* the decision rejects exactly when the registry is full, a rejection
\* changes nothing, an admitted connection is registered
C20_RejectExactlyWhenFull ==
    /\ AcceptDecision =>
          IF Len(clients) = MAX_CLIENTS
          THEN /\ listener'.last = "rejected"
               /\ listener'.pc = "accept"
               /\ UNCHANGED <<clients, doc, op_log, queues, writer, pc>>
          ELSE /\ listener'.pc = "register"
               /\ UNCHANGED clients
    /\ Registration =>
          /\ listener'.last = "accepted"
          /\ clients' = Append(clients, listener.c)

\* C20: admission control. An incoming connection is rejected exactly when
\* the registry holds MAX_CLIENTS entries, so the registry never holds more;
\* a rejection leaves registry, document and every queue unchanged; a
\* connection that arrives when the registry is below the limit, as after a
\* removal from a full registry, is admitted and registered.
C20_AdmissionControl ==
    [](C20_RegistryBounded) /\ [][C20_RejectExactlyWhenFull]_vars

\* C20 witness: a connection was rejected by the full registry, a client
\* was then removed, and the next connection has passed the limit check
C20_Witness ==
    /\ listener.last = "rejected"
    /\ listener.pc = "register"
    /\ listener.minted = MAX_CLIENTS + 1
    /\ Len(clients) = MAX_CLIENTS - 1

-----------------------------------------------------------------------------
(* Claims about the mutexes, checked under SpecLocks                         *)

LockThreads == Readers \cup {ListenerThread, HeartbeatThread}

\* the place thread th is at, and the path it follows
Place(th) ==
    CASE th = ListenerThread -> listener.pc
      [] th = HeartbeatThread -> hb.pc
      [] OTHER -> pc[th]

PathOf(th) ==
    CASE th = ListenerThread -> ListenerPath
      [] th = HeartbeatThread -> HeartbeatPath
      [] OTHER -> ReaderPath

LockNames == {"document", "op_log", "registry"}

\* the places of a reader inside broadcast
BroadcastPlaces ==
    {"lock_registry_snapshot", "in_registry_snapshot", "send_loop",
     "lock_registry_retain", "in_registry_retain"}

\* the mutexes thread th holds, and the mutex it is waiting to lock
HeldBy(th) == {l \in LockNames : Holder(l) = th}

Wants(th) == {e.lock : e \in {x \in PathOf(th) : x.from = Place(th) /\ x.op = "lock"}}

\* the lock order: Document, then OpLog, then Registry
Rank(l) == CASE l = "document" -> 1 [] l = "op_log" -> 2 [] l = "registry" -> 3

\* thread th gets mutex l in this step
Acquires(th, l) ==
    IF l = "document"
    THEN doc_lock # th /\ doc_lock' = th
    ELSE locks[l] # th /\ locks'[l] = th

\* a thread locks a mutex only when every mutex it holds comes earlier in
\* the order, and locks the registry only when it holds nothing
C21_LockOrder ==
    \A th \in LockThreads : \A l \in LockNames :
        Acquires(th, l) =>
            /\ \A h \in HeldBy(th) : Rank(h) < Rank(l)
            /\ l = "registry" => HeldBy(th) = {}

\* a broadcasting reader and the heartbeat thread hold neither the document
\* nor the OpLog mutex
C21_BroadcastHoldsNeither ==
    /\ \A t \in Readers :
          pc[t] \in BroadcastPlaces => HeldBy(t) \subseteq {"registry"}
    /\ HeldBy(HeartbeatThread) \subseteq {"registry"}

\* no set of threads in which each waits for a mutex held by one of the set
C21_NoWaitCycle ==
    \A S \in SUBSET LockThreads :
        S # {} => \E th \in S : \A l \in Wants(th) : Holder(l) \notin S

\* C21: deadlock freedom by lock order. Every thread locks the mutexes in
\* the order Document, OpLog, Registry; a broadcasting reader and the
\* heartbeat thread never hold the Document or the OpLog mutex; nobody locks
\* the Registry while holding the Document or the OpLog mutex; and in no
\* reachable state the reader, listener and heartbeat threads wait for each
\* other's mutexes in a cycle.
C21_DeadlockFreedom ==
    /\ [](C21_BroadcastHoldsNeither /\ C21_NoWaitCycle)
    /\ [][C21_LockOrder]_vars

\* C21 witness: r1 holds the document and the OpLog mutex inside the
\* pipeline, r2 and the listener wait for the document mutex, the heartbeat
\* thread holds the registry mutex
C21_Witness ==
    /\ HeldBy("r1") = {"document", "op_log"}
    /\ pc["r2"] = "lock_document"
    /\ listener.pc = "lock_document"
    /\ HeldBy(HeartbeatThread) = {"registry"}

-----------------------------------------------------------------------------
(* Claims about the order of frames on one connection, checked under         *)
(* SpecFifo                                                                  *)

\* the operations of a connection reach the pipeline in the order sent, each
\* once, and get increasing server versions
C22_HandedInSendOrder ==
    \A c \in DOMAIN net.handed :
        \A i \in 1..Len(net.handed[c]) :
            /\ net.handed[c][i].op_id = i
            /\ \A j \in 1..(i - 1) :
                  net.handed[c][j].server_version < net.handed[c][i].server_version

\* every frame ever enqueued for connection c, those written first
Trail(c) == net.outbound[c] \o queues[c]

\* a step leaves the trail of a connection as it is (a write moves the oldest
\* waiting frame to the socket) or adds one frame at its end (an enqueue)
C22_WrittenInEnqueueOrder ==
    \A c \in DOMAIN net.outbound :
        \/ Trail(c)' = Trail(c)
        \/ /\ Len(Trail(c)') = Len(Trail(c)) + 1
           /\ SubSeq(Trail(c)', 1, Len(Trail(c))) = Trail(c)

\* C22: per-connection FIFO. The operations of one connection are handed to
\* the apply pipeline in the order the client sent them, so that of two
\* applied operations of a connection the one sent earlier has the smaller
\* server_version; the frames are written to the connection's socket in the
\* order in which they were enqueued, none twice and none out of order.
C22_PerConnectionFifo ==
    [](C22_HandedInSendOrder) /\ [][C22_WrittenInEnqueueOrder]_vars

\* C22 witness: both operations of r1 were applied, one of r2 between them,
\* and r2's socket has received its welcome and the two snapshots of r1's
\* operations in that order
C22_Witness ==
    /\ net.handed["r1"] =
           <<[op_id |-> 1, length |-> 13, server_version |-> 0],
             [op_id |-> 2, length |-> 13, server_version |-> 2]>>
    /\ net.outbound["r2"] = <<SnapshotFrame(<<>>, 0), SnapshotFrame(<<>>, 1),
                              SnapshotFrame(<<>>, 3)>>

-----------------------------------------------------------------------------
(* Claims about framing and the reader loop, checked under SpecFraming       *)

\* the reader of connection t takes a turn of its loop on frame f, the
\* oldest unread one on its socket
ReadsHead(t, f) ==
    /\ pc[t] = "idle"
    /\ net.inbound[t] # <<>>
    /\ Head(net.inbound[t]) = f
    /\ Len(net'.inbound[t]) <= Len(net.inbound[t])
    /\ net'.inbound[t] # net.inbound[t] \/ pc'[t] # pc[t]

\* nothing changes for the connections other than t
OthersUntouched(t) ==
    /\ \A c \in DOMAIN pc \ {t} : pc'[c] = pc[c] /\ queues'[c] = queues[c]
    /\ \A c \in DOMAIN pc \ {t} : (c \in Registered) <=> (c \in Registered')
    /\ UNCHANGED <<doc, op_log, writer>>

\* C24: reader exit cleans up. When the reader of a connection meets the end
\* of the stream or a read error (here: a length over the limit), the entry
\* of that client is removed from the registry and the reader thread ends;
\* the other entries of the registry, in their order, and every queue are
\* unchanged.
C24_ReaderExitCleansUp ==
    [][\A t \in DOMAIN pc : \A f \in {EndOfStream, OversizedFrame} :
          ReadsHead(t, f) =>
              /\ pc'[t] = "exited"
              /\ clients' = SelectSeq(clients, LAMBDA e : e # t)
              /\ queues' = queues
              /\ OthersUntouched(t)]_vars

\* C24 witness: r1's client closed the connection; r1's reader has exited and
\* r2 alone is registered
C24_Witness ==
    /\ net.inbound["r1"] = <<EndOfStream>>
    /\ pc["r1"] = "exited"
    /\ pc["r2"] = "idle"
    /\ clients = <<"r2">>

\* the payload of frame f does not decode: unknown type id, or a body too
\* short for its kind
Malformed(f) ==
    /\ ~f.eof
    /\ f.length >= 5
    /\ f.length <= MAX_PAYLOAD_SIZE
    /\ \/ f.type_id \notin {MSG_TYPE_OPERATION, MSG_TYPE_SYNC_DOCUMENT,
                            MSG_TYPE_PING, MSG_TYPE_PONG}
       \/ f.type_id \in {MSG_TYPE_PING, MSG_TYPE_PONG} /\ f.body_len < 8

\* C25: a malformed envelope terminates the connection. When the payload of
\* a received frame does not decode, the reader of that connection exits and
\* its entry is removed from the registry, and nothing changes for the other
\* clients.
C25_MalformedTerminates ==
    [][\A t \in DOMAIN pc : \A f \in {UnknownTypeFrame, ShortPongFrame} :
          (Malformed(f) /\ ReadsHead(t, f)) =>
              /\ pc'[t] = "exited"
              /\ t \notin Registered'
              /\ OthersUntouched(t)]_vars

\* C26: a zero-length frame is a no-op. When the reader of a connection
\* reads a frame whose length prefix is 0, the reader is back at reading the
\* next frame, the client stays registered, and document, OpLog and all
\* queues are unchanged.
C26_ZeroLengthIsNoop ==
    [][\A t \in DOMAIN pc :
          ReadsHead(t, ZeroLengthFrame) =>
              /\ pc'[t] = "idle"
              /\ UNCHANGED <<clients, doc, op_log, queues>>]_vars

\* C27: payload size limit. A frame whose declared length is above
\* MAX_PAYLOAD_SIZE is refused after its prefix, the payload left unread,
\* the reader exits and the entry is removed from the registry; a frame
\* whose declared length is exactly MAX_PAYLOAD_SIZE is read whole and
\* handled as the Operation it carries.
C27_PayloadSizeLimit ==
    [][\A t \in DOMAIN pc : \A id \in 1..MaxSent :
          /\ ReadsHead(t, OversizedFrame) =>
                /\ net'.inbound[t] =
                       <<[OversizedFrame EXCEPT !.prefix = "read"]>>
                           \o Tail(net.inbound[t])
                /\ pc'[t] = "exited"
                /\ t \notin Registered'
          /\ ReadsHead(t, AtLimitFrame(id)) =>
                /\ net'.inbound[t] = Tail(net.inbound[t])
                /\ pc'[t] = "broadcast"
                /\ net'.handed[t] =
                       Append(net.handed[t],
                              [op_id |-> id, length |-> MAX_PAYLOAD_SIZE,
                               server_version |-> doc.version])
                /\ doc'.version = doc.version + 1
                /\ clients' = clients]_vars

\* C27 witness: r1's operation in a frame of exactly MAX_PAYLOAD_SIZE bytes
\* was applied; then its frame one byte larger ended the connection with the
\* payload unread
C27_Witness ==
    /\ net.handed["r1"] =
           <<[op_id |-> 1, length |-> MAX_PAYLOAD_SIZE, server_version |-> 0]>>
    /\ net.inbound["r1"] = <<[OversizedFrame EXCEPT !.prefix = "read"]>>
    /\ pc["r1"] = "exited"
    /\ clients = <<"r2">>

-----------------------------------------------------------------------------
(* Claims about the welcome and the snapshots, checked under SpecServer      *)

\* the listener accepts connection c: its writer thread is spawned
AcceptStep(c) == writer[c] = "none" /\ writer'[c] = "running"

\* before a connection is accepted it has no frame and no registry entry
C23_NothingBeforeWelcome ==
    \A c \in DOMAIN writer :
        writer[c] = "none" => queues[c] = <<>> /\ c \notin Registered

\* the step that accepts c puts one frame into c's empty queue: a
\* SyncDocument with the document's content and version, read while no
\* pipeline invocation holds the document lock; a frame for the same version
\* in any other queue is identical to it
C23_WelcomeIsTheDocument ==
    \A c \in DOMAIN writer :
        AcceptStep(c) =>
            /\ doc_lock = NoThread
            /\ doc' = doc
            /\ queues'[c] = <<[type |-> "SyncDocument", content |-> doc.content,
                               version |-> doc.version]>>
            /\ \A c2 \in DOMAIN queues \ {c} : \A i \in 1..Len(queues[c2]) :
                   queues[c2][i].version = doc.version =>
                       queues[c2][i] = queues'[c][1]

\* C23: welcome snapshot. The first frame enqueued for an accepted client is
\* a SyncDocument whose content and version are one state of the document,
\* read under the document lock; two clients accepted with no apply in
\* between get identical welcomes.
C23_WelcomeSnapshot ==
    [](C23_NothingBeforeWelcome) /\ [][C23_WelcomeIsTheDocument]_vars

\* C23 witness: r1 was welcomed with the empty document and inserted "X";
\* r2, accepted after that, has the document at version 1 as its welcome
C23_Witness ==
    /\ doc = [content |-> <<"X">>, version |-> 1]
    /\ writer["r2"] = "running"
    /\ listener.pc = "register"
    /\ queues["r2"] = <<[type |-> "SyncDocument", content |-> <<"X">>,
                         version |-> 1]>>

\* the pipeline of reader t applies its operation, appends its log entry
ApplyStep(t) == pc[t] = "apply" /\ pc'[t] = "append"
AppendStep(t) == pc[t] = "append" /\ pc'[t] = "broadcast"

\* reader t is in the pipeline with an operation that is a Noop after the
\* rebase
HoldsNoop(t) == pc[t] \in {"apply", "append"} /\ loc[t].op_kind.kind = "Noop"

\* the apply of a Noop always succeeds
C28_NoopApplies ==
    \A t \in DOMAIN pc :
        (pc[t] = "apply" /\ HoldsNoop(t)) => ENABLED ApplyOk(t) /\ ~ENABLED ApplyErr(t)

\* a Noop takes the next version and leaves the content; its log entry holds
\* the Noop stamped with the version the document had, and the frame the
\* reader goes on to broadcast pairs the unchanged content with the new
\* version
C28_NoopSteps ==
    \A t \in DOMAIN pc :
        /\ (HoldsNoop(t) /\ ApplyStep(t)) =>
              /\ doc'.content = doc.content
              /\ doc'.version = doc.version + 1
              /\ loc'[t].updated_content = doc.content
              /\ loc'[t].new_version = doc.version + 1
              /\ op_log' = op_log
        /\ (HoldsNoop(t) /\ AppendStep(t)) =>
              /\ Len(op_log') = Len(op_log) + 1
              /\ SubSeq(op_log', 1, Len(op_log)) = op_log
              /\ op_log'[Len(op_log')].kind.kind = "Noop"
              /\ op_log'[Len(op_log')].server_version = loc[t].new_version - 1
              /\ loc'[t].frame =
                     [type |-> "SyncDocument",
                      content |-> loc[t].updated_content,
                      version |-> loc[t].new_version]
              /\ doc' = doc

RECURSIVE Replay(_)
Replay(n) ==
    IF n = 0 THEN [content |-> <<>>, version |-> 0]
    ELSE apply_op(Replay(n - 1), applied[n]).doc

\* every SyncDocument frame the server holds: in a queue, or in the hands of
\* a reader on its way to broadcast
SnapshotsHeld ==
    UNION {{queues[c][i] : i \in 1..Len(queues[c])} : c \in DOMAIN queues}
    \cup {loc[t].frame : t \in {u \in DOMAIN pc : InBroadcast(u)}}

\* the document is the replay of everything applied, and a frame pairs its
\* version with the content the document had at that version
C29_VersionMatchesContent ==
    /\ doc = Replay(Len(applied))
    /\ \A f \in SnapshotsHeld :
           /\ f.version <= Len(applied)
           /\ f.content = Replay(f.version).content

\* the pair a pipeline invocation copies at its apply is the document right
\* after that apply, one version above the one it found, and the frame it
\* returns is that pair, whatever was applied in between
C29_SnapshotOfOwnApply ==
    \A t \in DOMAIN pc :
        /\ ApplyStep(t) =>
              /\ loc'[t].new_version = doc.version + 1
              /\ loc'[t].updated_content = doc'.content
              /\ applied' = Append(applied, loc[t].op_kind)
        /\ AppendStep(t) =>
              loc'[t].frame = [type |-> "SyncDocument",
                               content |-> loc[t].updated_content,
                               version |-> loc[t].new_version]

\* C29: snapshot consistency. Every snapshot produced by a successful
\* pipeline invocation that found the document at version v_s carries
\* version v_s + 1 and the content right after that apply; no snapshot pairs
\* a version with the content of another version, under any interleaving.
C29_SnapshotConsistency ==
    [](C29_VersionMatchesContent) /\ [][C29_SnapshotOfOwnApply]_vars

\* C29 witness: r1 applied its insert (version 1) and, before it built its
\* frame, r2 applied another insert (version 2); r1's frame still pairs
\* version 1 with the content of version 1
C29_Witness ==
    /\ pc["r1"] = "broadcast"
    /\ pc["r2"] = "append"
    /\ doc = [content |-> <<"Y", "X">>, version |-> 2]
    /\ loc["r1"].frame = SnapshotFrame(<<"X">>, 1)

-----------------------------------------------------------------------------
(* SpecRebase: the pipeline of Spec run by two clients that author every     *)
(* operation with indices valid for the content at its client_version        *)

\* the applies of a run of SpecRebase
MaxApplies == 3

\* the operations a client may author: for a version the document has had,
\* with indices valid for the content at that version
AuthoredProtos(t) ==
    {p \in GoodProtos(t) :
        /\ p.client_version <= Len(applied)
        /\ InBounds(p.kind, Len(Replay(p.client_version).content))}

NextRebase ==
    \E t \in Readers :
        \/ \E proto \in AuthoredProtos(t) : LockDocumentBelow(t, proto, MaxApplies)
        \/ Rebase(t)
        \/ ApplyOk(t)
        \/ ApplyErr(t)
        \/ AppendLog(t)

SpecRebase == Init /\ [][NextRebase]_vars

\* C30: rebase preserves validity. When every client authors each operation
\* with indices valid for the content at the operation's client_version, the
\* operation folded over the OpLog entries for client_version up to
\* document.version - 1 is accepted by apply: no apply fails after a rebase.
C30_RebasePreservesValidity ==
    \A t \in DOMAIN pc :
        pc[t] = "apply" => apply_op(doc, loc[t].op_kind).ok

-----------------------------------------------------------------------------
(* SpecWidth: transform (transform.rs 3-228) with the width of its integers. *)
(* Indices are u32 in the payload; the two index maps compute in usize       *)
(* (64 bits: a sum of a u32 and a text length cannot overflow it) and their  *)
(* results are cast back with `as u32`, which truncates; the shifts add in   *)
(* u32. An overflowing + or - panics in a build with overflow checks         *)
(* (debug) and wraps in one without (release).                               *)

\* the width of an index; 32 in the code, scaled
U32_BITS == 4
U32_MODULUS == 2 ^ U32_BITS

\* the outcome of an arithmetic step that panicked, and of a call that did
Overflow == -1
Panic == [kind |-> "Panic"]

\* `x as u32` on a usize
as_u32(x) == IF x = Overflow THEN Overflow ELSE x % U32_MODULUS

\* a + b on u32
add_u32(a, b, build) ==
    IF a + b < U32_MODULUS THEN a + b
    ELSE IF build = "debug" THEN Overflow
    ELSE (a + b) % U32_MODULUS

\* map_index_after_deletion (transform.rs 3-11) on usize: del_end - del_start
\* underflows when del_end < del_start; wrapping twice, the release build
\* comes out at i + (del_start - del_end)
map_index_after_deletion_usize(i, del_start, del_end, build) ==
    IF i <= del_start THEN i
    ELSE IF i >= del_end
         THEN IF del_end >= del_start THEN i - (del_end - del_start)
              ELSE IF build = "debug" THEN Overflow
              ELSE i + (del_start - del_end)
    ELSE del_start

\* map_index_after_insertion (transform.rs 13-15) on usize
map_index_after_insertion_usize(i, ins_pos, ins_len) ==
    IF i = Overflow THEN Overflow
    ELSE IF i < ins_pos THEN i ELSE i + ins_len

\* the result of an arm: a panic in one of its computations ends the call
arm(values, result) == IF Overflow \in values THEN Panic ELSE result

\* the endpoint shift of transform.rs 63-75, 131-140 and 149-158 in u32
shift_range_after_insert_u32(op, ins_index, ins_len, build) ==
    LET len == as_u32(ins_len)
        start == add_u32(op.start, len, build)
        end == add_u32(op.end, len, build)
    IN  IF ins_index <= op.start
        THEN arm({start, end}, [op EXCEPT !.start = start, !.end = end])
        ELSE IF ins_index < op.end
        THEN arm({end}, [op EXCEPT !.end = end])
        ELSE op

\* transform.rs 20-58: op_in is an Insert
transform_insert_u32(op, prev, build) ==
    CASE prev.kind = "Noop" -> op
      [] prev.kind = "Insert" ->
            LET index == add_u32(op.index, as_u32(Len(prev.text)), build)
            IN  IF prev.index < op.index
                   \/ (prev.index = op.index /\ LexLess(prev.client_id, op.client_id))
                THEN arm({index}, [op EXCEPT !.index = index])
                ELSE op
      [] prev.kind = "Delete" ->
            LET index == as_u32(map_index_after_deletion_usize(
                                    op.index, prev.start, prev.end, build))
            IN  arm({index}, [op EXCEPT !.index = index])
      [] prev.kind = "Replace" ->
            LET after_del == map_index_after_deletion_usize(
                                 op.index, prev.start, prev.end, build)
                index == as_u32(map_index_after_insertion_usize(
                                    after_del, prev.start, Len(prev.text)))
            IN  arm({index}, [op EXCEPT !.index = index])

\* transform.rs 60-143: op_in is a Delete
transform_delete_u32(op, prev, build) ==
    LET new_start == map_index_after_deletion_usize(op.start, prev.start, prev.end, build)
        new_end   == map_index_after_deletion_usize(op.end, prev.start, prev.end, build)
        moved == [op EXCEPT !.start = as_u32(new_start), !.end = as_u32(new_end)]
    IN  CASE prev.kind = "Noop" -> op
          [] prev.kind = "Insert" ->
                shift_range_after_insert_u32(op, prev.index, Len(prev.text), build)
          [] prev.kind = "Delete" ->
                arm({new_start, new_end},
                    IF new_start = new_end
                    THEN NoopOp(op.client_id, op.client_version)
                    ELSE moved)
          [] prev.kind = "Replace" ->
                IF Overflow \in {new_start, new_end} THEN Panic
                ELSE IF new_start = new_end
                THEN NoopOp(op.client_id, op.client_version)
                ELSE shift_range_after_insert_u32(moved, prev.start,
                                                  Len(prev.text), build)

\* transform.rs 145-226: op_in is a Replace
transform_replace_u32(op, prev, build) ==
    LET new_start == map_index_after_deletion_usize(op.start, prev.start, prev.end, build)
        new_end   == map_index_after_deletion_usize(op.end, prev.start, prev.end, build)
        start_final == map_index_after_insertion_usize(new_start, prev.start, Len(prev.text))
        end_final   == map_index_after_insertion_usize(new_end, prev.start, Len(prev.text))
    IN  CASE prev.kind = "Noop" -> op
          [] prev.kind = "Insert" ->
                shift_range_after_insert_u32(op, prev.index, Len(prev.text), build)
          [] prev.kind = "Delete" ->
                arm({new_start, new_end},
                    IF new_start = new_end
                    THEN InsertOp(as_u32(new_start), op.text,
                                  op.client_id, op.client_version)
                    ELSE [op EXCEPT !.start = as_u32(new_start),
                                    !.end = as_u32(new_end)])
          [] prev.kind = "Replace" ->
                arm({start_final, end_final},
                    IF start_final = end_final
                    THEN InsertOp(as_u32(start_final), op.text,
                                  op.client_id, op.client_version)
                    ELSE [op EXCEPT !.start = as_u32(start_final),
                                    !.end = as_u32(end_final)])

\* transform (transform.rs 17-228) on u32 indices
transform_u32(op_in, op_prev, build) ==
    CASE op_in.kind = "Noop"    -> op_in
      [] op_in.kind = "Insert"  -> transform_insert_u32(op_in, op_prev, build)
      [] op_in.kind = "Delete"  -> transform_delete_u32(op_in, op_prev, build)
      [] op_in.kind = "Replace" -> transform_replace_u32(op_in, op_prev, build)

\* the indices transform is called with: the small ones and the largest
EdgeIndices == {0, 1, 2, U32_MODULUS - 2, U32_MODULUS - 1}

\* the operations of one author, validated or not, with a text of at most
\* two characters
WidthOps(id) ==
         {InsertOp(i, t, id.client_id, id.client_version) :
              i \in EdgeIndices, t \in {<<>>, <<"X">>, <<"X", "Y">>}}
    \cup {DeleteOp(st, en, id.client_id, id.client_version) :
              st \in EdgeIndices, en \in EdgeIndices}
    \cup {ReplaceOp(st, en, t, id.client_id, id.client_version) :
              st \in EdgeIndices, en \in EdgeIndices,
              t \in {<<>>, <<"X">>, <<"X", "Y">>}}
    \cup {NoopOp(id.client_id, id.client_version)}

InitWidth ==
    /\ conv \in {[stage |-> "call", op_in |-> a, op_prev |-> b, build |-> bd,
                  result |-> NoOp] :
                     a \in UNION {WidthOps(id) : id \in Identities},
                     b \in UNION {WidthOps(id) : id \in Identities},
                     bd \in {"debug", "release"}}
    /\ conv.op_in.client_id # conv.op_prev.client_id
    /\ PipelineOff

\* the call transform(op_in, op_prev)
TransformU32 ==
    /\ conv.stage = "call"
    /\ conv' = [conv EXCEPT !.stage = "returned",
                            !.result = transform_u32(conv.op_in, conv.op_prev,
                                                     conv.build)]
    /\ UNCHANGED <<locks, net, transport_vars, pipeline_vars>>

NextWidth == TransformU32

SpecWidth == InitWidth /\ [][NextWidth]_vars

\* C37: transform is total without overflow. For every pair of operations
\* with u32 indices, validated against a document or not, transform returns
\* a result and every index in it is the mathematically exact value: no
\* computation wraps, underflows or aborts.
C37_TotalWithoutOverflow ==
    conv.stage = "returned" =>
        /\ conv.result # Panic
        /\ conv.result = transform(conv.op_in, conv.op_prev)

\* start <= end, for the operations that have a range
WellFormed(op) == op.kind \in {"Delete", "Replace"} => op.start <= op.end

\* C38: transform keeps operations well-formed. When op_in and op_prev both
\* satisfy start <= end, transform(op_in, op_prev) satisfies start <= end,
\* carries op_in's client_id and client_version and, when it is an Insert or
\* a Replace, op_in's text.
C38_KeepsWellFormed ==
    (conv.stage = "returned" /\ WellFormed(conv.op_in) /\ WellFormed(conv.op_prev)) =>
        /\ conv.result # Panic
        /\ WellFormed(conv.result)
        /\ conv.result.client_id = conv.op_in.client_id
        /\ conv.result.client_version = conv.op_in.client_version
        /\ conv.result.kind \in {"Insert", "Replace"} =>
               conv.result.text = conv.op_in.text

-----------------------------------------------------------------------------
(* Claims about the heartbeat tick, checked under SpecLiveness               *)

\* the heartbeat monitor runs send_ping_to_all, the second half of a tick
PingStep == hb.pc = "ping" /\ hb'.pc = "sleep"

\* a tick takes the next sequence number, one above the last, and removes the
\* timed-out clients before any Ping is enqueued; the Ping that follows
\* carries the number of its tick and goes only to the clients that are
\* registered after the removal; no other step touches the counter
C34_TickSteps ==
    /\ HeartbeatTick =>
          /\ hb'.seq = hb.ping_sequence
          /\ hb'.ping_sequence = hb.ping_sequence + 1
          /\ queues' = queues
    /\ PingStep =>
          /\ hb'.ping_sequence = hb.ping_sequence
          /\ hb.seq = hb.ping_sequence - 1
          /\ clients' = clients
          /\ \A c \in DOMAIN queues :
                /\ c \notin Registered => queues'[c] = queues[c]
                /\ queues'[c] \in {queues[c], Append(queues[c], PingFrame(hb.seq))}
    /\ ~HeartbeatTick => hb'.ping_sequence = hb.ping_sequence

\* C34: heartbeat tick order and sequence. Each tick first removes all
\* timed-out clients and only then enqueues the Ping, so a client evicted in
\* a tick is never sent that tick's Ping; the sequence number is 0 on the
\* first tick and grows by exactly 1 on every tick, pinged or not.
C34_TickOrderAndSequence ==
    (hb.ping_sequence = 0) /\ [][C34_TickSteps]_vars

\* C34 witness: the third tick (sequence number 2) has evicted r1 and then
\* pinged r2; r1's queue holds no Ping of that tick
C34_Witness ==
    /\ hb.pc = "sleep"
    /\ hb.seq = 2
    /\ stats.evicted_by["r1"] = "heartbeat"
    /\ clients = <<"r2">>
    /\ queues["r2"] # <<>>
    /\ queues["r2"][Len(queues["r2"])] = PingFrame(2)
    /\ \A i \in 1..Len(queues["r1"]) : queues["r1"][i] # PingFrame(2)

\* client c cannot take a frame: its queue is full or its writer is gone
CannotTake(c) == Len(queues[c]) >= QueueCapacity \/ writer[c] # "running"

\* the Ping step can always be taken
C35_PingNeverBlocks == hb.pc = "ping" => ENABLED HeartbeatPing

\* the Ping step removes nobody; a client that cannot take the Ping keeps its
\* queue as it is, every other registered client gets the Ping at the back
C35_PingStep ==
    PingStep =>
        /\ clients' = clients
        /\ \A c \in Registered :
              IF CannotTake(c)
              THEN queues'[c] = queues[c]
              ELSE queues'[c] = Append(queues[c], PingFrame(hb.seq))

\* C35: Ping never blocks or evicts. When a client's queue is full or closed
\* at the time of a Ping, the Ping for that client is dropped, the heartbeat
\* thread does not block, the client stays registered with its queue
\* unchanged, and every other registered client with room gets the Ping.
C35_PingNeverBlocksOrEvicts ==
    [](C35_PingNeverBlocks) /\ [][C35_PingStep]_vars

\* C35 witness: at the second tick r1's queue was full (the welcome and the
\* first Ping, unwritten); r1 is still registered with the same queue, and
\* r2, which had room, got the second Ping
C35_Witness ==
    /\ hb.pc = "sleep"
    /\ hb.seq = 1
    /\ clients = <<"r1", "r2">>
    /\ queues["r1"] = <<Welcome0, PingFrame(0)>>
    /\ queues["r2"] # <<>>
    /\ queues["r2"][Len(queues["r2"])] = PingFrame(1)

-----------------------------------------------------------------------------
(* Claims about joining while operations are applied, checked under          *)
(* SpecServer                                                                *)

\* connection c has its welcome snapshot in its channel and is not yet in the
\* registry: the listener is between main.rs 96 and add_client (main.rs 102)
Joining(c) ==
    /\ listener.pc = "register"
    /\ listener.c = c
    /\ queues[c] # <<>>
    /\ queues[c][1].type = "SyncDocument"

\* C33: no missed update on join. If another client's operation is applied
\* after a newly accepted client's welcome snapshot was read, the snapshot of
\* that apply is enqueued on the new client's queue: a broadcast of a version
\* above the welcome's version that clones the registry while the new client
\* is joining has the new client among its receivers.
C33_NoMissedUpdate ==
    [][\A t \in Readers : \A c \in Readers \ {t} :
          (/\ pc[t] = "broadcast"
           /\ pc'[t] = "send"
           /\ Joining(c)
           /\ loc[t].frame.version > queues[c][1].version)
          => \E i \in 1..Len(loc'[t].clients_snapshot) :
                 loc'[t].clients_snapshot[i] = c]_vars

-----------------------------------------------------------------------------
(* SpecEviction: SpecFifo's threads followed to their end. The server's      *)
(* threads are scheduled fairly; what the clients send, and whether they     *)
(* ever close their sockets, is up to them.                                  *)

\* writer.rs 22, 50-72: recv returns Err(RecvError) once the channel is empty
\* and every sender is dropped; the writer flushes and returns. The sender
\* lives in the ClientEntry (main.rs 99): in the listener's hands until
\* add_client, then in the registry, and in the registry clones of the
\* broadcasts that are under way (broadcaster.rs 16-19)
WriterDisconnected(c) ==
    /\ writer[c] = "running"
    /\ queues[c] = <<>>
    /\ c \notin Registered
    /\ listener.c # c
    /\ \A t \in DOMAIN pc : pc[t] # "send"
    /\ writer' = [writer EXCEPT ![c] = "exited"]
    /\ UNCHANGED <<locks, net, conv, pipeline_vars, clients, queues, last_activity_ms,
                   now_ms, listener, hb, stats>>

NextEviction ==
    \/ AcceptConnection
    \/ RegisterClient
    \/ \E t \in Readers :
        \/ \E f \in OpFrames(net, t) : ClientSend(t, f)
        \/ ReadFrame(t)
        \/ BroadcastSnapshot(t)
        \/ BroadcastSend(t)
        \/ BroadcastRetain(t)
        \/ ReaderExit(t)
        \/ WriterWrite(t)
        \/ WriterDisconnected(t)

\* every thread of the server that can take a step takes one in the end; a
\* read of the socket returns when bytes are there (ReadFrame), its failure
\* (ReaderExit) is the client's doing
SpecEviction ==
    /\ InitReader
    /\ [][NextEviction]_vars
    /\ WF_vars(AcceptConnection)
    /\ WF_vars(RegisterClient)
    /\ \A t \in Readers :
          /\ WF_vars(ReadFrame(t))
          /\ WF_vars(BroadcastSnapshot(t))
          /\ WF_vars(BroadcastSend(t))
          /\ WF_vars(BroadcastRetain(t))
          /\ WF_vars(WriterWrite(t))
          /\ WF_vars(WriterDisconnected(t))

-----------------------------------------------------------------------------
(* Claims about evicted clients, checked under SpecEviction                  *)

\* connection c was removed from the registry by a broadcast or a heartbeat
Evicted(c) == stats.evicted_by[c] # "none"

\* C31: workers terminate after eviction. After a client is evicted, its
\* writer eventually exits on channel closure and its reader eventually exits
\* as well.
C31_WorkersTerminate ==
    \A c \in Readers : Evicted(c) ~> (writer[c] = "exited" /\ pc[c] = "exited")

\* the reader of connection t takes a frame off its socket
ReadsAFrame(t) == Len(net'.inbound[t]) < Len(net.inbound[t])

\* C32: no edits from evicted clients. Once a client has been removed from
\* the registry by an eviction, no frame read on its connection changes the
\* document or the OpLog or starts a broadcast.
C32_NoEditsFromEvicted ==
    [][\A t \in Readers :
          (Evicted(t) /\ ReadsAFrame(t))
          => /\ doc' = doc
             /\ op_log' = op_log
             /\ pc'[t] # "broadcast"]_vars

-----------------------------------------------------------------------------
(* SpecFanout: four registered connections whose welcomes are written. The   *)
(* clients of r1 and r2 send operations, r3 and r4 only listen.              *)

FanoutConnections == {"r1", "r2", "r3", "r4"}

\* the server after four accepts (main.rs 43-126), every welcome written
InitFanout ==
    /\ conv = ConvOff
    /\ doc = [content |-> <<>>, version |-> 0]
    /\ doc_lock = NoThread
    /\ op_log = <<>>
    /\ pc = [t \in FanoutConnections |-> "idle"]
    /\ loc = [t \in FanoutConnections |-> LocIdle]
    /\ applied = <<>>
    /\ succeeded = 0
    /\ any_failed = FALSE
    /\ last_err = "none"
    /\ clients = <<"r1", "r2", "r3", "r4">>
    /\ queues = [c \in FanoutConnections |-> <<>>]
    /\ writer = [c \in FanoutConnections |-> "running"]
    /\ last_activity_ms = [c \in FanoutConnections |-> 0]
    /\ now_ms = 0
    /\ listener = ListenerAccepting(4, "accepted")
    /\ stats = StatsInit(FanoutConnections)
    /\ locks = LocksFree
    /\ hb = "off"
    /\ net = NetInit(Readers)

\* the operations sent on r1 and r2 together, at most
MaxFanoutOps == 3

NextFanout ==
    \/ \E t \in Readers :
        \/ \E f \in OpFrames(net, t) :
              /\ net.sent["r1"] + net.sent["r2"] < MaxFanoutOps
              /\ ClientSend(t, f)
        \/ ReadFrame(t)
        \/ BroadcastSnapshot(t)
        \/ BroadcastSend(t)
        \/ BroadcastRetain(t)
    \/ \E c \in FanoutConnections : WriterWrite(c)

SpecFanout == InitFanout /\ [][NextFanout]_vars

-----------------------------------------------------------------------------
(* Claims about the order of delivery, checked under SpecFanout              *)

\* the client id of the operation whose apply produced version v
Author(v) == applied[v].client_id

\* C36: broadcast delivery is not version-ordered. The snapshots of two
\* applies can stand in a client's queue against the order of their versions,
\* and then the two applies are of different connections: the snapshots one
\* connection broadcasts stand in version order in every queue.
C36_OnlyConcurrentAppliesReorder ==
    \A c \in FanoutConnections :
        \A i \in 1..Len(queues[c]) : \A j \in 1..Len(queues[c]) :
            (i < j /\ queues[c][i].version > queues[c][j].version)
            => Author(queues[c][i].version) # Author(queues[c][j].version)

\* C36 witness: versions 1 and 2 are applied by r1 and r2; r3's queue holds
\* them in the order 1, 2 and r4's queue in the order 2, 1
C36_Witness ==
    /\ Len(applied) >= 2
    /\ Author(1) # Author(2)
    /\ queues["r3"] = <<SnapshotFrame(<<>>, 1), SnapshotFrame(<<>>, 2)>>
    /\ queues["r4"] = <<SnapshotFrame(<<>>, 2), SnapshotFrame(<<>>, 1)>>

====
